---- MODULE Spec2Model ----
(***************************************************************************)
(* Food identification and resolution engine of protein-tracker:           *)
(*   - nutritionApi.js : searchFoods (result merger), transformProduct     *)
(*     (record normalizer), searchCommonFoods and searchAllFoods           *)
(*     (source-priority combiner), getFoodByBarcode                        *)
(*   - foodRecognition.js : recognizeFood, mapToFoodItem, fuzzyMatchFoods  *)
(*     (label resolver), loadModel (the cached classifier)                 *)
(*   - useFoodRecognition.js : preloadModel, recognize                     *)
(*   - FoodSearch (part_002) : handleSelectFood, calculateProtein,         *)
(*     handleAdd and the serving-size input (serving scaler)               *)
(*                                                                         *)
(* Numbers.  JavaScript numbers are modelled as exact rationals in fixed   *)
(* point: every protein quantity is an integer number of hundredths of a   *)
(* gram (31.2 g is 3120), every probability an integer number of           *)
(* thousandths (0.3 is 300).  Serving sizes are whole units.  The nutrient  *)
(* values a source carries are numbers; strings and NaN are not drawn.     *)
(*                                                                         *)
(* Objects.  A JavaScript object is a function whose DOMAIN is the set of  *)
(* the properties that are present; reading an absent property gives       *)
(* Undefined.  Strings are TLA+ strings, handled character by character.   *)
(***************************************************************************)
EXTENDS Integers, Sequences, FiniteSets, TLC

VARIABLES
  pc,             \* position of searchAllFoods/searchFoods: idle, fetch1, fetch2, done
  query,          \* argument of searchAllFoods
  commonResults,  \* nutritionApi.js:177
  data,           \* nutritionApi.js:26, body of the structured-query response
  textData,       \* nutritionApi.js:37-40, body of the text-query response
  textResponseOk, \* nutritionApi.js:38, textResponse.ok
  failure,        \* why searchFoods ran its catch block ("none" when it did not)
  apiResults,     \* nutritionApi.js:180-182, what searchFoods returned
  results,        \* what searchAllFoods returned
  npc,            \* position of getFoodByBarcode: idle, done
  product,        \* raw product of the barcode response
  item,           \* what getFoodByBarcode returned
  rpc,            \* position of recognizeFood: idle, classify, done
  predictions,    \* foodRecognition.js:63, the classifier's output
  foodResults,    \* what recognizeFood returned
  model,            \* foodRecognition.js:10, 0 for null, else the load that produced it
  modelLoading,     \* foodRecognition.js:11
  modelLoadPromise, \* foodRecognition.js:12, 0 for null, else the number of the load
  promise,          \* the promises mobilenet.load returned, in order of the calls
  cpc,              \* position of each call of the hook: idle, preload, recognize,
                    \* classify, and caught, empty, found for the branch recognize ended in
  awaits,           \* the load each call's await loadModel() depends on, 0 for none
  initiator,        \* whether the call's loadModel() is the one that called mobilenet.load
  loading,          \* useFoodRecognition.js:16
  hookModelLoading, \* useFoodRecognition.js:17
  error,            \* useFoodRecognition.js:18
  hookResults,      \* useFoodRecognition.js:19
  showSearch,       \* part_002:219, whether the FoodSearch dialog is mounted
  selectedFood,     \* part_002:408, the empty sequence for null
  chosenSize,       \* part_002:409, the state servingSize of FoodSearch
  selectedMeal,     \* part_002:410
  selectedMealType, \* part_002:222, state of Dashboard
  entry,            \* what onAdd received: the empty sequence before the first call
  cameraState,      \* part_002:414
  activeTab,        \* part_002:402
  capturedImage,    \* useFoodRecognition.js:20
  fromBlob,         \* whether each call of recognize was made by recognizeFromBlob
                    \* for handleCameraCapture
  searchQuery,      \* part_002:405, the query state of FoodSearch
  searchResults,    \* part_002:406, the results state of FoodSearch
  searchLoading,    \* part_002:407, the loading state of FoodSearch
  timer,            \* the pending timeout of the debounce effect (part_002:438-453)
  requests,         \* the calls of searchAllFoods that have not returned
  storedLogs,       \* localStorage item of STORAGE_KEYS.LOGS, parsed
  storedRecent,     \* localStorage item of STORAGE_KEYS.RECENT_FOODS, parsed
  currentDate,      \* part_000:9, as the key toISODateString gives it
  log,              \* useFoodLog.js: the log state of the hook
  returned,         \* what the last operation of the ledger returned: the service's
                    \* log or null (the empty sequence), and the hook's boolean
  nextId            \* the ids crypto.randomUUID() has handed out

vars == <<pc, query, commonResults, data, textData, textResponseOk, failure, apiResults, results,
          npc, product, item, rpc, predictions, foodResults,
          model, modelLoading, modelLoadPromise, promise, cpc, awaits, initiator,
          loading, hookModelLoading, error, hookResults,
          showSearch, selectedFood, chosenSize, selectedMeal, selectedMealType, entry,
          cameraState, activeTab, capturedImage, fromBlob,
          searchQuery, searchResults, searchLoading, timer, requests,
          storedLogs, storedRecent, currentDate, log, returned, nextId>>

searchVars == <<pc, query, commonResults, data, textData, textResponseOk, failure, apiResults, results>>
barcodeVars == <<npc, product, item>>
recognitionVars == <<rpc, predictions, foodResults>>
loaderVars == <<model, modelLoading, modelLoadPromise, promise>>
callVars == <<cpc, awaits, initiator>>
hookVars == <<loading, hookModelLoading, error, hookResults>>
dialogVars == <<showSearch, selectedFood, chosenSize, selectedMeal, selectedMealType, entry>>
cameraVars == <<cameraState, activeTab, capturedImage, fromBlob>>
typingVars == <<searchQuery, searchResults, searchLoading, timer, requests>>
ledgerVars == <<storedLogs, storedRecent, currentDate, log, returned, nextId>>
engineVars == <<searchVars, barcodeVars, recognitionVars>>

---------------------------------------------------------------------------
(* JavaScript values *)

\* the value of an absent property; differs from every string the inputs draw
Undefined == "undefined"
\* the null reference
Null == "null"
\* the object literal {}
EmptyObject == [k \in {} |-> 0]

\* obj[k], or Undefined when obj has no property k (string-valued properties)
Get(obj, k) == IF k \in DOMAIN obj THEN obj[k] ELSE Undefined

\* the truthiness that a || b tests, for a numeric property: present and not 0
TruthyNumber(obj, k) == k \in DOMAIN obj /\ obj[k] # 0

\* the truthiness that a || b tests, for a string property: present and not ""
TruthyString(obj, k) == k \in DOMAIN obj /\ obj[k] # ""

UpperToLower ==
  [A |-> "a", B |-> "b", C |-> "c", D |-> "d", E |-> "e", F |-> "f", G |-> "g",
   H |-> "h", I |-> "i", J |-> "j", K |-> "k", L |-> "l", M |-> "m", N |-> "n",
   O |-> "o", P |-> "p", Q |-> "q", R |-> "r", S |-> "s", T |-> "t", U |-> "u",
   V |-> "v", W |-> "w", X |-> "x", Y |-> "y", Z |-> "z"]

LowerChar(c) == IF c \in DOMAIN UpperToLower THEN UpperToLower[c] ELSE c

\* String.prototype.toLowerCase
RECURSIVE toLowerCase(_)
toLowerCase(s) ==
  IF s = "" THEN ""
  ELSE LowerChar(SubSeq(s, 1, 1)) \o toLowerCase(SubSeq(s, 2, Len(s)))

\* String.prototype.includes
includes(s, sub) ==
  \E i \in 1..(Len(s) - Len(sub) + 1) : SubSeq(s, i, i + Len(sub) - 1) = sub

\* Math.round(x * 10) / 10 for x = num / den hundredths of a gram, den > 0:
\* the nearest tenth of a gram, a half rounding up, again in hundredths
Round1(num, den) == ((2 * num + 10 * den) \div (20 * den)) * 10

---------------------------------------------------------------------------
(* nutritionApi.js *)

\* product.code (nutritionApi.js:46, :74)
CodeOf(prod) == Get(prod, "code")

\* nutritionApi.js:63-84
transformProduct(prod) ==
  LET nutriments == IF "nutriments" \in DOMAIN prod THEN prod.nutriments ELSE EmptyObject
      proteinPer100g ==
        IF TruthyNumber(nutriments, "proteins_100g") THEN nutriments.proteins_100g
        ELSE IF TruthyNumber(nutriments, "proteins") THEN nutriments.proteins
        ELSE 0
      servingSize ==
        IF TruthyNumber(nutriments, "serving_size") THEN nutriments.serving_size ELSE 100
  IN [id |-> CodeOf(prod),
      name |-> IF TruthyString(prod, "product_name") THEN prod.product_name
               ELSE "Unknown Product",
      brand |-> IF TruthyString(prod, "brands") THEN prod.brands ELSE "",
      protein |-> Round1(proteinPer100g, 1),
      proteinPerServing |->
        IF TruthyNumber(nutriments, "proteins_serving")
        THEN Round1(nutriments.proteins_serving, 1)
        ELSE Round1(proteinPer100g * servingSize, 100),
      servingSize |-> servingSize,
      servingUnit |-> "g",
      source |-> "openfoodfacts",
      image |-> IF TruthyString(prod, "image_front_small_url")
                THEN prod.image_front_small_url ELSE Null]

\* data.products || []  (nutritionApi.js:43)
ProductsOf(body) == IF "products" \in DOMAIN body THEN body.products ELSE <<>>

\* the merge with its deduplication left out
keepAllProducts(allProducts, seen) == allProducts

\* nutritionApi.js:44-49: the filter over allProducts with the seen-set
RECURSIVE uniqueProducts(_, _)
uniqueProducts(allProducts, seen) ==
  IF allProducts = <<>> THEN <<>>
  ELSE LET code == CodeOf(Head(allProducts))
       IN IF code \in seen
          THEN uniqueProducts(Tail(allProducts), seen)
          ELSE <<Head(allProducts)>> \o uniqueProducts(Tail(allProducts), seen \cup {code})

\* the protein filter letting a record with no protein through
HasNoNegativeProtein(food) == food.protein >= 0

\* nutritionApi.js:51: item.protein > 0
HasProtein(food) == food.protein > 0

\* a searchFoods whose normalizer throws on a product without nutrient map, so
\* that the catch block answers with the empty list
searchFoodsStrict(body, textBody) ==
  LET allProducts == ProductsOf(body) \o ProductsOf(textBody)
      unique == uniqueProducts(allProducts, {})
      transformed == [i \in 1..Len(unique) |-> transformProduct(unique[i])]
  IN IF \E i \in 1..Len(unique) : "nutriments" \notin DOMAIN unique[i]
     THEN <<>>
     ELSE SelectSeq(transformed, HasProtein)

\* nutritionApi.js:42-51: what searchFoods returns when neither fetch threw
searchFoodsReturn(body, textBody) ==
  LET allProducts == ProductsOf(body) \o ProductsOf(textBody)
      unique == uniqueProducts(allProducts, {})
      transformed == [i \in 1..Len(unique) |-> transformProduct(unique[i])]
  IN SelectSeq(transformed, HasProtein)

\* a catch block that hands back what the structured query had delivered
searchFoodsCatchPartial(body) == searchFoodsReturn(body, EmptyObject)

\* nutritionApi.js:52-55: what searchFoods returns from its catch block
searchFoodsCatch(body) == <<>>

\* nutritionApi.js:122-153 (protein in hundredths of a gram)
COMMON_FOODS == <<
  [name |-> "Chicken Breast (cooked)", protein |-> 3100, servingSize |-> 100, servingUnit |-> "g", source |-> "common"],
  [name |-> "Turkey Breast (cooked)", protein |-> 3000, servingSize |-> 100, servingUnit |-> "g", source |-> "common"],
  [name |-> "Lean Beef (cooked)", protein |-> 2600, servingSize |-> 100, servingUnit |-> "g", source |-> "common"],
  [name |-> "Salmon (cooked)", protein |-> 2500, servingSize |-> 100, servingUnit |-> "g", source |-> "common"],
  [name |-> "Tuna (canned)", protein |-> 2600, servingSize |-> 100, servingUnit |-> "g", source |-> "common"],
  [name |-> "Egg (whole)", protein |-> 600, servingSize |-> 1, servingUnit |-> "egg", source |-> "common"],
  [name |-> "Egg White", protein |-> 360, servingSize |-> 1, servingUnit |-> "egg", source |-> "common"],
  [name |-> "Greek Yogurt", protein |-> 1000, servingSize |-> 100, servingUnit |-> "g", source |-> "common"],
  [name |-> "Cottage Cheese", protein |-> 1100, servingSize |-> 100, servingUnit |-> "g", source |-> "common"],
  [name |-> "Milk (whole)", protein |-> 320, servingSize |-> 100, servingUnit |-> "ml", source |-> "common"],
  [name |-> "Whey Protein Powder", protein |-> 2500, servingSize |-> 30, servingUnit |-> "g", source |-> "common"],
  [name |-> "Tofu (firm)", protein |-> 800, servingSize |-> 100, servingUnit |-> "g", source |-> "common"],
  [name |-> "Lentils (cooked)", protein |-> 900, servingSize |-> 100, servingUnit |-> "g", source |-> "common"],
  [name |-> "Black Beans (cooked)", protein |-> 890, servingSize |-> 100, servingUnit |-> "g", source |-> "common"],
  [name |-> "Chickpeas (cooked)", protein |-> 890, servingSize |-> 100, servingUnit |-> "g", source |-> "common"],
  [name |-> "Quinoa (cooked)", protein |-> 440, servingSize |-> 100, servingUnit |-> "g", source |-> "common"],
  [name |-> "Almonds", protein |-> 2100, servingSize |-> 100, servingUnit |-> "g", source |-> "common"],
  [name |-> "Peanut Butter", protein |-> 2500, servingSize |-> 100, servingUnit |-> "g", source |-> "common"],
  [name |-> "Cottage Cheese", protein |-> 1100, servingSize |-> 100, servingUnit |-> "g", source |-> "common"],
  [name |-> "Shrimp (cooked)", protein |-> 2400, servingSize |-> 100, servingUnit |-> "g", source |-> "common"],
  [name |-> "Tilapia (cooked)", protein |-> 2600, servingSize |-> 100, servingUnit |-> "g", source |-> "common"],
  [name |-> "Ground Turkey (cooked)", protein |-> 2700, servingSize |-> 100, servingUnit |-> "g", source |-> "common"],
  [name |-> "Ground Beef 90% (cooked)", protein |-> 2600, servingSize |-> 100, servingUnit |-> "g", source |-> "common"],
  [name |-> "Protein Bar", protein |-> 2000, servingSize |-> 1, servingUnit |-> "bar", source |-> "common"],
  [name |-> "Edamame (cooked)", protein |-> 1100, servingSize |-> 100, servingUnit |-> "g", source |-> "common"],
  [name |-> "Tempeh", protein |-> 1900, servingSize |-> 100, servingUnit |-> "g", source |-> "common"],
  [name |-> "Seitan", protein |-> 2500, servingSize |-> 100, servingUnit |-> "g", source |-> "common"],
  [name |-> "Pumpkin Seeds", protein |-> 1900, servingSize |-> 100, servingUnit |-> "g", source |-> "common"],
  [name |-> "Chia Seeds", protein |-> 1700, servingSize |-> 100, servingUnit |-> "g", source |-> "common"],
  [name |-> "Hemp Seeds", protein |-> 3100, servingSize |-> 100, servingUnit |-> "g", source |-> "common"]
>>

\* nutritionApi.js:163: the filter's test
MatchesQuery(food, lowerQuery) == includes(toLowerCase(food.name), lowerQuery)

\* nutritionApi.js:164-167: the food with its id, index counted from 0 in the matches
WithId(food, index) ==
  [k \in DOMAIN food \cup {"id"} |->
     IF k = "id" THEN "common-" \o ToString(index) ELSE food[k]]

\* nutritionApi.js:160-168
searchCommonFoods(q) ==
  LET lowerQuery == toLowerCase(q)
      Test(food) == MatchesQuery(food, lowerQuery)
      matched == SelectSeq(COMMON_FOODS, Test)
  IN [i \in 1..Len(matched) |-> WithId(matched[i], i - 1)]

\* the duplicate test comparing the names as they are spelled
isDuplicateExact(common, apiFood) ==
  \E i \in 1..Len(common) : common[i].name = apiFood.name

\* nutritionApi.js:192-194
isDuplicate(common, apiFood) ==
  \E i \in 1..Len(common) :
     toLowerCase(common[i].name) = toLowerCase(apiFood.name)

\* nutritionApi.js:187-200: combined, after the forEach over apiResults
combined(common, api) ==
  LET Fresh(apiFood) == ~isDuplicate(common, apiFood)
  IN common \o SelectSeq(api, Fresh)

---------------------------------------------------------------------------
(* constants.js and foodRecognition.js *)

\* RECOGNITION_CONFIG.MIN_CONFIDENCE, 0.3 in thousandths
MIN_CONFIDENCE == 300
\* RECOGNITION_CONFIG.MAX_RESULTS
MAX_RESULTS == 3

\* constants.js:40-110, in the order of Object.entries (protein in hundredths of a gram)
FOOD_CLASS_MAPPINGS== <<
  [key |-> "banana", name |-> "Banana", protein |-> 110],
  [key |-> "pizza", name |-> "Pizza", protein |-> 1200],
  [key |-> "hamburger", name |-> "Hamburger", protein |-> 1700],
  [key |-> "hotdog", name |-> "Hot Dog", protein |-> 1000],
  [key |-> "burrito", name |-> "Burrito", protein |-> 1500],
  [key |-> "cheeseburger", name |-> "Cheeseburger", protein |-> 1800],
  [key |-> "meat loaf", name |-> "Meatloaf", protein |-> 2200],
  [key |-> "French loaf", name |-> "Bread", protein |-> 900],
  [key |-> "bagel", name |-> "Bagel", protein |-> 1000],
  [key |-> "pretzel", name |-> "Pretzel", protein |-> 800],
  [key |-> "carbonara", name |-> "Carbonara", protein |-> 1400],
  [key |-> "chicken", name |-> "Chicken", protein |-> 2700],
  [key |-> "eggnog", name |-> "Eggnog", protein |-> 500],
  [key |-> "ice cream", name |-> "Ice Cream", protein |-> 300],
  [key |-> "cheese", name |-> "Cheese", protein |-> 2500],
  [key |-> "eggs", name |-> "Eggs", protein |-> 1300],
  [key |-> "breakfast", name |-> "Breakfast Plate", protein |-> 2000],
  [key |-> "guacamole", name |-> "Guacamole", protein |-> 200],
  [key |-> "mixed vegetables", name |-> "Mixed Vegetables", protein |-> 300],
  [key |-> "salad", name |-> "Salad", protein |-> 200],
  [key |-> "steak", name |-> "Steak", protein |-> 2600],
  [key |-> "fish", name |-> "Fish", protein |-> 2200],
  [key |-> "salmon", name |-> "Salmon", protein |-> 2500],
  [key |-> "shrimp", name |-> "Shrimp", protein |-> 2400],
  [key |-> "lobster", name |-> "Lobster", protein |-> 2400],
  [key |-> "crab", name |-> "Crab", protein |-> 1900],
  [key |-> "sushi", name |-> "Sushi", protein |-> 700],
  [key |-> "taco", name |-> "Taco", protein |-> 1200],
  [key |-> "sandwich", name |-> "Sandwich", protein |-> 1500],
  [key |-> "pancake", name |-> "Pancakes", protein |-> 600],
  [key |-> "waffle", name |-> "Waffle", protein |-> 700],
  [key |-> "omelette", name |-> "Omelette", protein |-> 1400],
  [key |-> "scrambled eggs", name |-> "Scrambled Eggs", protein |-> 1300],
  [key |-> "bacon", name |-> "Bacon", protein |-> 3700],
  [key |-> "sausage", name |-> "Sausage", protein |-> 1800],
  [key |-> "yogurt", name |-> "Yogurt", protein |-> 1000],
  [key |-> "cottage cheese", name |-> "Cottage Cheese", protein |-> 1100],
  [key |-> "peanut butter", name |-> "Peanut Butter", protein |-> 2500],
  [key |-> "almond", name |-> "Almonds", protein |-> 2100],
  [key |-> "peanut", name |-> "Peanuts", protein |-> 2600],
  [key |-> "walnut", name |-> "Walnuts", protein |-> 1500],
  [key |-> "cashew", name |-> "Cashews", protein |-> 1800],
  [key |-> "pumpkin seed", name |-> "Pumpkin Seeds", protein |-> 1900],
  [key |-> "sunflower seed", name |-> "Sunflower Seeds", protein |-> 2100],
  [key |-> "tofu", name |-> "Tofu", protein |-> 800],
  [key |-> "tempeh", name |-> "Tempeh", protein |-> 1900],
  [key |-> "lentil", name |-> "Lentils", protein |-> 900],
  [key |-> "bean", name |-> "Beans", protein |-> 900],
  [key |-> "chickpea", name |-> "Chickpeas", protein |-> 900],
  [key |-> "quinoa", name |-> "Quinoa", protein |-> 440],
  [key |-> "rice", name |-> "Rice", protein |-> 270],
  [key |-> "pasta", name |-> "Pasta", protein |-> 500],
  [key |-> "noodle", name |-> "Noodles", protein |-> 500],
  [key |-> "soup", name |-> "Soup", protein |-> 600],
  [key |-> "stew", name |-> "Stew", protein |-> 1500],
  [key |-> "curry", name |-> "Curry", protein |-> 1200],
  [key |-> "dumpling", name |-> "Dumplings", protein |-> 800],
  [key |-> "spring roll", name |-> "Spring Roll", protein |-> 500],
  [key |-> "kebab", name |-> "Kebab", protein |-> 2000],
  [key |-> "meatball", name |-> "Meatballs", protein |-> 1800],
  [key |-> "pot roast", name |-> "Pot Roast", protein |-> 2500],
  [key |-> "ribs", name |-> "Ribs", protein |-> 2300],
  [key |-> "pork chop", name |-> "Pork Chop", protein |-> 2500],
  [key |-> "lamb", name |-> "Lamb", protein |-> 2500],
  [key |-> "venison", name |-> "Venison", protein |-> 2600],
  [key |-> "turkey", name |-> "Turkey", protein |-> 2900],
  [key |-> "duck", name |-> "Duck", protein |-> 1900],
  [key |-> "goose", name |-> "Goose", protein |-> 2500]
>>

\* the rounding applied to the probability itself, the factor 100 left out
ConfidenceOfFraction(probability) == (probability + 500) \div 1000

\* Math.round(prediction.probability * 100), probability in thousandths
Confidence(probability) == (probability + 5) \div 10

\* foodRecognition.js:93-108: the loop over Object.entries(FOOD_CLASS_MAPPINGS)
\* from entry i on; null is the empty sequence, a food the one-element sequence
RECURSIVE mapFrom(_, _)
mapFrom(prediction, i) ==
  IF i > Len(FOOD_CLASS_MAPPINGS) THEN <<>>
  ELSE LET key == FOOD_CLASS_MAPPINGS[i].key
           value == FOOD_CLASS_MAPPINGS[i]
       IN IF includes(toLowerCase(prediction.className), toLowerCase(key))
          THEN << [id |-> "recognized-" \o key,
                   name |-> value.name,
                   protein |-> value.protein,
                   servingSize |-> 100,
                   servingUnit |-> "g",
                   source |-> "recognition",
                   confidence |-> Confidence(prediction.probability),
                   originalClass |-> prediction.className] >>
          ELSE mapFrom(prediction, i + 1)

\* a loop that returns a food for every table key the label contains
RECURSIVE mapEveryKeyFrom(_, _)
mapEveryKeyFrom(prediction, i) ==
  IF i > Len(FOOD_CLASS_MAPPINGS) THEN <<>>
  ELSE (IF includes(toLowerCase(prediction.className),
                    toLowerCase(FOOD_CLASS_MAPPINGS[i].key))
        THEN << [id |-> "recognized-" \o FOOD_CLASS_MAPPINGS[i].key,
                 name |-> FOOD_CLASS_MAPPINGS[i].name,
                 protein |-> FOOD_CLASS_MAPPINGS[i].protein,
                 servingSize |-> 100,
                 servingUnit |-> "g",
                 source |-> "recognition",
                 confidence |-> Confidence(prediction.probability),
                 originalClass |-> prediction.className] >>
        ELSE <<>>) \o mapEveryKeyFrom(prediction, i + 1)

\* mapToFoodItem without the return inside its loop
mapToEveryFoodItem(prediction) == mapEveryKeyFrom(prediction, 1)

\* foodRecognition.js:89-109
mapToFoodItem(prediction) == mapFrom(prediction, 1)

\* foodRecognition.js:67: the filter before the direct mapping
IsConfident(prediction) == prediction.probability >= MIN_CONFIDENCE

\* a fuzzy loop that skips no prediction
IsNeverSkipped(prediction) == FALSE

\* foodRecognition.js:120: the fuzzy loop's continue
IsSkipped(prediction) == prediction.probability < MIN_CONFIDENCE

\* String.prototype.split(/[,/]/)
RECURSIVE split(_)
split(s) ==
  LET seps == {i \in 1..Len(s) : SubSeq(s, i, i) \in {",", "/"}}
  IN IF seps = {} THEN <<s>>
     ELSE LET i == CHOOSE m \in seps : \A n \in seps : m <= n
          IN <<SubSeq(s, 1, i - 1)>> \o split(SubSeq(s, i + 1, Len(s)))

\* String.prototype.trim, for the white space a label holds
RECURSIVE trim(_)
trim(s) ==
  IF s = "" THEN ""
  ELSE IF SubSeq(s, 1, 1) = " " THEN trim(SubSeq(s, 2, Len(s)))
  ELSE IF SubSeq(s, Len(s), Len(s)) = " " THEN trim(SubSeq(s, 1, Len(s) - 1))
  ELSE s

\* the keyword loop taking the last curated match instead of the first
RECURSIVE matchKeywordLast(_, _, _)
matchKeywordLast(prediction, keywords, i) ==
  IF i > Len(keywords) THEN <<>>
  ELSE LET commonFoods == searchCommonFoods(keywords[i])
       IN IF Len(commonFoods) > 0
          THEN LET bestMatch == commonFoods[Len(commonFoods)]
               IN << [k \in DOMAIN bestMatch \cup {"confidence", "originalClass"} |->
                        CASE k = "source" -> "recognition"
                          [] k = "confidence" -> Confidence(prediction.probability)
                          [] k = "originalClass" -> prediction.className
                          [] OTHER -> bestMatch[k]] >>
          ELSE matchKeywordLast(prediction, keywords, i + 1)

\* foodRecognition.js:128-142: the loop over keywords from keyword i on
RECURSIVE matchKeyword(_, _, _)
matchKeyword(prediction, keywords, i) ==
  IF i > Len(keywords) THEN <<>>
  ELSE LET commonFoods == searchCommonFoods(keywords[i])
       IN IF Len(commonFoods) > 0
          THEN LET bestMatch == commonFoods[1]
               IN << [k \in DOMAIN bestMatch \cup {"confidence", "originalClass"} |->
                        CASE k = "source" -> "recognition"
                          [] k = "confidence" -> Confidence(prediction.probability)
                          [] k = "originalClass" -> prediction.className
                          [] OTHER -> bestMatch[k]] >>
          ELSE matchKeyword(prediction, keywords, i + 1)

\* foodRecognition.js:119-143: one turn of the loop over predictions
fuzzyMatchOne(prediction) ==
  IF IsSkipped(prediction) THEN <<>>
  ELSE LET className == toLowerCase(prediction.className)
           parts == split(className)
           keywords == [i \in 1..Len(parts) |-> trim(parts[i])]
       IN matchKeyword(prediction, keywords, 1)

\* results.slice(0, n)
slice(s, n) == SubSeq(s, 1, IF Len(s) < n THEN Len(s) ELSE n)

\* the concatenation of f[1], ..., f[n]
RECURSIVE Flatten(_, _)
Flatten(f, n) == IF n = 0 THEN <<>> ELSE Flatten(f, n - 1) \o f[n]

\* foodRecognition.js:116-146
fuzzyMatchFoods(preds) ==
  LET found == [i \in 1..Len(preds) |-> fuzzyMatchOne(preds[i])]
  IN slice(Flatten(found, Len(preds)), MAX_RESULTS)

\* foodRecognition.js:66-69: filter, map, filter
directResults(preds) ==
  LET confident == SelectSeq(preds, IsConfident)
      mapped == [i \in 1..Len(confident) |-> mapToFoodItem(confident[i])]
  IN Flatten(mapped, Len(confident))

\* recognizeFood running the fuzzy match whatever the direct mapping found
recognizeFoodAlwaysFuzzy(preds) == directResults(preds) \o fuzzyMatchFoods(preds)

\* foodRecognition.js:66-77
recognizeFoodReturn(preds) ==
  LET direct == directResults(preds)
  IN IF Len(direct) = 0 /\ Len(preds) > 0
     THEN direct \o fuzzyMatchFoods(preds)
     ELSE direct

---------------------------------------------------------------------------
(* Inputs of the classifier *)

\* class names the classifier may report
Labels ==
  {"cheeseburger", "plate", "goldfish", "anemone fish", "bee", "Bowl, Seeds", "Cup / Milk"}

\* probabilities in thousandths: below, just below, at and above MIN_CONFIDENCE
Probabilities == {100, 299, 300, 820}

\* foodRecognition.js:63: the topk argument of classify
TopK == MAX_RESULTS

RECURSIVE SumProbabilities(_, _)
SumProbabilities(preds, n) ==
  IF n = 0 THEN 0 ELSE SumProbabilities(preds, n - 1) + preds[n].probability

\* what classify(image, MAX_RESULTS) may return: at most MAX_RESULTS distinct
\* classes, by descending probability, the probabilities summing to at most 1
ClassifierOutputs ==
  { preds \in UNION {[1..n -> [className : Labels, probability : Probabilities]]
                       : n \in 0..TopK} :
      /\ \A i, j \in 1..Len(preds) :
            i < j => /\ preds[i].className # preds[j].className
                     /\ preds[i].probability >= preds[j].probability
      /\ SumProbabilities(preds, Len(preds)) <= 1000 }

---------------------------------------------------------------------------
(* recognizeFood(imageElement): foodRecognition.js:58-82 *)

\* foodRecognition.js:60-63: the model is loaded and classify is called
Recognize ==
  /\ rpc = "idle"
  /\ rpc' = "classify"
  /\ UNCHANGED <<predictions, foodResults>>
  /\ UNCHANGED <<searchVars, barcodeVars, loaderVars, callVars, hookVars, dialogVars, cameraVars, typingVars, ledgerVars>>

\* foodRecognition.js:63-77: classify resolves with preds
ClassifyOk(preds) ==
  /\ rpc = "classify"
  /\ predictions' = preds
  /\ foodResults' = recognizeFoodReturn(preds)
  /\ rpc' = "done"
  /\ UNCHANGED <<searchVars, barcodeVars, loaderVars, callVars, hookVars, dialogVars, cameraVars, typingVars, ledgerVars>>

\* foodRecognition.js:63, 78-81: classify rejects and recognizeFood rethrows
ClassifyFail ==
  /\ rpc = "classify"
  /\ rpc' = "failed"
  /\ UNCHANGED <<predictions, foodResults>>
  /\ UNCHANGED <<searchVars, barcodeVars, loaderVars, callVars, hookVars, dialogVars, cameraVars, typingVars, ledgerVars>>

\* foodRecognition.js:89-109: mapToFoodItem applied to a prediction whose label
\* is the k-th key of FOOD_CLASS_MAPPINGS
MapKeyLabel(k, probability) ==
  /\ rpc = "idle"
  /\ rpc' = "mapped"
  /\ predictions' = << [className |-> FOOD_CLASS_MAPPINGS[k].key,
                        probability |-> probability] >>
  /\ foodResults' = mapToFoodItem(predictions'[1])
  /\ UNCHANGED <<searchVars, barcodeVars, loaderVars, callVars, hookVars, dialogVars, cameraVars, typingVars, ledgerVars>>

---------------------------------------------------------------------------
(* Inputs of the remote nutrition source *)

\* longest product array one response carries
MaxProducts == 2

\* an object with the one property k, for each v in values, or without it
Optional(k, values) == {EmptyObject} \cup {[x \in {k} |-> v] : v \in values}

\* raw products the two search queries may return: a remote spelling of a
\* curated food, two products sharing an identity key, a product with no
\* nutrient map, and a product with neither code nor name
RemoteProducts ==
  { [code |-> "X123", product_name |-> "chicken breast (cooked)",
     nutriments |-> [proteins_100g |-> 3120]],
    [code |-> "X123", product_name |-> "Chicken Nuggets", brands |-> "Acme",
     nutriments |-> [proteins_100g |-> 1500, proteins_serving |-> 1200, serving_size |-> 80]],
    [code |-> "Y456", product_name |-> "COTTAGE CHEESE"],
    [code |-> "Y456", product_name |-> "Tofu (Firm)", nutriments |-> [proteins |-> 800]],
    [nutriments |-> [proteins_100g |-> 1000, proteins |-> 900]] }

ProductArrays == UNION {[1..n -> RemoteProducts] : n \in 0..MaxProducts}

\* bodies of a successful search response: with or without a products array
ResponseBodies == {EmptyObject} \cup {[products |-> a] : a \in ProductArrays}

\* what the user types into the search box
Queries == {"chicken", "COTTAGE", "Tofu", "Egg", "kale"}

---------------------------------------------------------------------------
(* searchAllFoods(query), which awaits searchFoods(query) *)

\* nutritionApi.js:175-182: searchAllFoods is called; the structured query is sent
Search(q) ==
  /\ pc = "idle"
  /\ query' = q
  /\ commonResults' = searchCommonFoods(q)
  /\ pc' = "fetch1"
  /\ UNCHANGED <<data, textData, textResponseOk, failure, apiResults, results>>
  /\ UNCHANGED <<barcodeVars, recognitionVars, loaderVars, callVars, hookVars, dialogVars, cameraVars, typingVars, ledgerVars>>

\* searchFoods returned api; nutritionApi.js:182-200
Return(api) ==
  /\ apiResults' = api
  /\ results' = combined(commonResults, api)
  /\ pc' = "done"

\* nutritionApi.js:16-29: the structured query answers 2xx with a JSON body;
\* the text query is sent
StructuredOk(body) ==
  /\ pc = "fetch1"
  /\ data' = body
  /\ pc' = "fetch2"
  /\ UNCHANGED <<query, commonResults, textData, textResponseOk, failure, apiResults, results>>
  /\ UNCHANGED <<barcodeVars, recognitionVars, loaderVars, callVars, hookVars, dialogVars, cameraVars, typingVars, ledgerVars>>

\* nutritionApi.js:16-26, 52-55: fetch rejects ("network"), the status is not
\* 2xx ("status", thrown at :23), or the body is not JSON ("json")
StructuredFail(why) ==
  /\ pc = "fetch1"
  /\ failure' = why
  /\ Return(searchFoodsCatch(data))
  /\ UNCHANGED <<query, commonResults, data, textData, textResponseOk>>
  /\ UNCHANGED <<barcodeVars, recognitionVars, loaderVars, callVars, hookVars, dialogVars, cameraVars, typingVars, ledgerVars>>

\* nutritionApi.js:31-51: the text query answers 2xx with a JSON body
TextOk(body) ==
  /\ pc = "fetch2"
  /\ textResponseOk' = TRUE
  /\ textData' = body
  /\ Return(searchFoodsReturn(data, body))
  /\ UNCHANGED <<query, commonResults, data, failure>>
  /\ UNCHANGED <<barcodeVars, recognitionVars, loaderVars, callVars, hookVars, dialogVars, cameraVars, typingVars, ledgerVars>>

\* nutritionApi.js:37-51: the text query answers with a status that is not
\* 2xx; textData keeps { products: [] }
TextNotOk ==
  /\ pc = "fetch2"
  /\ textResponseOk' = FALSE
  /\ Return(searchFoodsReturn(data, textData))
  /\ UNCHANGED <<query, commonResults, data, textData, failure>>
  /\ UNCHANGED <<barcodeVars, recognitionVars, loaderVars, callVars, hookVars, dialogVars, cameraVars, typingVars, ledgerVars>>

\* nutritionApi.js:31-39, 52-55: the text fetch rejects ("network") or its
\* body is not JSON ("json")
TextFail(why) ==
  /\ pc = "fetch2"
  /\ failure' = why
  /\ textResponseOk' = (why = "json")
  /\ Return(searchFoodsCatch(data))
  /\ UNCHANGED <<query, commonResults, data, textData>>
  /\ UNCHANGED <<barcodeVars, recognitionVars, loaderVars, callVars, hookVars, dialogVars, cameraVars, typingVars, ledgerVars>>

---------------------------------------------------------------------------
(* getFoodByBarcode(barcode): nutritionApi.js:91-116 *)

\* nutrient values the source may carry, in hundredths of a gram
NutrientValues == {-50, 0, 4, 1254}
\* declared serving sizes
ServingSizes == {0, 30, 250}

NutrientKeys == {"proteins_100g", "proteins", "proteins_serving", "serving_size"}

\* every nutrient map over a subset of the keys
NutrientMaps ==
  UNION { { n \in [D -> NutrientValues \cup ServingSizes] :
              \A k \in D : IF k = "serving_size" THEN n[k] \in ServingSizes
                           ELSE n[k] \in NutrientValues }
          : D \in SUBSET NutrientKeys }

\* every raw product with each field present or absent
RawProducts ==
  { c @@ n @@ b @@ m :
      c \in Optional("code", {"X123"}),
      n \in Optional("product_name", {"", "Protein Bar"}),
      b \in Optional("brands", {"Acme"}),
      m \in Optional("nutriments", NutrientMaps) }

\* nutritionApi.js:105-109: status 1 and a product; the result is a one-element
\* sequence, null the empty sequence
BarcodeFound(prod) ==
  /\ npc = "idle"
  /\ product' = prod
  /\ item' = <<transformProduct(prod)>>
  /\ npc' = "done"
  /\ UNCHANGED <<searchVars, recognitionVars, loaderVars, callVars, hookVars, dialogVars, cameraVars, typingVars, ledgerVars>>

\* nutritionApi.js:107-111: the response names no product
BarcodeNotFound ==
  /\ npc = "idle"
  /\ item' = <<>>
  /\ npc' = "none"
  /\ UNCHANGED product
  /\ UNCHANGED <<searchVars, recognitionVars, loaderVars, callVars, hookVars, dialogVars, cameraVars, typingVars, ledgerVars>>

\* nutritionApi.js:95-103, 112-115: fetch rejects or the status is not 2xx
BarcodeError ==
  /\ npc = "idle"
  /\ item' = <<>>
  /\ npc' = "error"
  /\ UNCHANGED product
  /\ UNCHANGED <<searchVars, recognitionVars, loaderVars, callVars, hookVars, dialogVars, cameraVars, typingVars, ledgerVars>>

---------------------------------------------------------------------------
(* loadModel (foodRecognition.js:18-43) under the calls of the hook          *)
(* useFoodRecognition (useFoodRecognition.js:25-60).  Every await is a       *)
(* suspension point: the steps of different calls interleave there, and      *)
(* nowhere else.                                                             *)

\* calls of the hook's functions that may be under way at once
NumCallers == 2

Callers == 1..NumCallers

\* calls of mobilenet.load one behaviour may make
MaxLoads == 2

\* err.message of the errors mobilenet.load and classify reject with
ErrorMessages == {"", "Failed to fetch"}

\* useFoodRecognition.js:52
NoFoodsMessage == "No foods recognized. Try a different angle or use manual search."

\* classifier outputs of the hook's requests: nothing, a label that resolves to
\* no food, a label below the threshold, a direct mapping, a fuzzy match
HookPredictions ==
  { <<>>,
    << [className |-> "plate", probability |-> 820] >>,
    << [className |-> "cheeseburger", probability |-> 299] >>,
    << [className |-> "cheeseburger", probability |-> 820],
       [className |-> "plate", probability |-> 100] >>,
    << [className |-> "bee", probability |-> 300] >> }

\* the positions at which a call is suspended
InFlight == {"preload", "decode", "recognize", "classify"}

\* the loads whose promise is pending in the sequence ps
Pending(ps) == {p \in 1..Len(ps) : ps[p].status = "pending"}

\* a loadModel that never joins the load under way
NeverJoin == FALSE

\* foodRecognition.js:23
ShouldJoin == modelLoading /\ modelLoadPromise # 0

\* foodRecognition.js:49-51
isModelLoaded == model # 0

\* foodRecognition.js:209-214
getModelStatus == [loaded |-> model # 0, loading |-> modelLoading]

\* a catch block that drops the error
SwallowedMessage(message) == Null

\* useFoodRecognition.js:56: err.message || 'Failed to recognize food'
CaughtMessage(message) == IF message # "" THEN message ELSE "Failed to recognize food"

\* foodRecognition.js:18-34: loadModel() up to its return or its await, called
\* by call c from position caller (preload or recognize); with the model
\* cached the caller resumes at once
loadModel(c, caller) ==
  IF model # 0
  THEN /\ cpc' = [cpc EXCEPT ![c] = IF caller = "recognize" THEN "classify" ELSE "idle"]
       /\ hookModelLoading' = IF caller = "preload" THEN FALSE ELSE hookModelLoading
       /\ UNCHANGED <<loaderVars, awaits, initiator>>
  ELSE IF ShouldJoin
  THEN /\ cpc' = [cpc EXCEPT ![c] = caller]
       /\ awaits' = [awaits EXCEPT ![c] = modelLoadPromise]
       /\ initiator' = [initiator EXCEPT ![c] = FALSE]
       /\ hookModelLoading' = IF caller = "preload" THEN TRUE ELSE hookModelLoading
       /\ UNCHANGED loaderVars
  ELSE /\ Len(promise) < MaxLoads
       /\ modelLoading' = TRUE
       /\ promise' = Append(promise, [status |-> "pending", message |-> ""])
       /\ modelLoadPromise' = Len(promise) + 1
       /\ cpc' = [cpc EXCEPT ![c] = caller]
       /\ awaits' = [awaits EXCEPT ![c] = Len(promise) + 1]
       /\ initiator' = [initiator EXCEPT ![c] = TRUE]
       /\ hookModelLoading' = IF caller = "preload" THEN TRUE ELSE hookModelLoading
       /\ UNCHANGED model

\* useFoodRecognition.js:25-31: preloadModel() up to its await; when the status
\* is loaded or loading it returns and changes nothing
preloadModel(c) ==
  /\ cpc[c] \notin InFlight
  /\ ~(model # 0 \/ modelLoading)
  /\ loadModel(c, "preload")
  /\ UNCHANGED <<loading, error, hookResults>>
  /\ UNCHANGED <<engineVars, dialogVars, cameraVars, typingVars, ledgerVars>>

\* useFoodRecognition.js:42-48 with foodRecognition.js:58-60: recognize() up to
\* the await of loadModel() in recognizeFood
recognize(c) ==
  /\ cpc[c] \notin InFlight
  /\ loading' = TRUE
  /\ error' = Null
  /\ hookResults' = <<>>
  /\ loadModel(c, "recognize")
  /\ fromBlob' = [fromBlob EXCEPT ![c] = FALSE]
  /\ UNCHANGED <<cameraState, activeTab, capturedImage>>
  /\ UNCHANGED <<engineVars, dialogVars, typingVars, ledgerVars>>

\* images createImageFromBlob can fulfil with (foodRecognition.js:153-170)
Images == {"blob:1"}

\* useFoodRecognition.js:74: err.message || 'Failed to process image'
BlobMessage(message) == IF message # "" THEN message ELSE "Failed to process image"

\* part_002:515: the condition under which FoodSearch renders FoodCamera in
\* place of everything else
CameraShown ==
  /\ activeTab = "camera"
  /\ capturedImage = Null
  /\ ~loading
  /\ hookResults = <<>>
  /\ error = Null

\* part_002:486-488 with useFoodRecognition.js:66-71: a capture of FoodCamera,
\* which is rendered under the condition of part_002:515, up to the await of
\* createImageFromBlob
handleCameraCapture(c) ==
  /\ showSearch
  /\ CameraShown
  /\ cpc[c] \notin InFlight
  /\ cameraState' = "recognizing"
  /\ loading' = TRUE
  /\ error' = Null
  /\ hookResults' = <<>>
  /\ cpc' = [cpc EXCEPT ![c] = "decode"]
  /\ fromBlob' = [fromBlob EXCEPT ![c] = TRUE]
  /\ UNCHANGED <<loaderVars, awaits, initiator, hookModelLoading, activeTab, capturedImage>>
  /\ UNCHANGED <<engineVars, dialogVars, typingVars, ledgerVars>>

\* foodRecognition.js:158-161 with useFoodRecognition.js:72-73, 42-48: the
\* image loads; recognizeFromBlob keeps its source and calls recognize(), which
\* runs up to the await of loadModel()
DecodeResolve(c, image) ==
  /\ cpc[c] = "decode"
  /\ capturedImage' = image
  /\ loading' = TRUE
  /\ error' = Null
  /\ hookResults' = <<>>
  /\ loadModel(c, "recognize")
  /\ UNCHANGED <<cameraState, activeTab, fromBlob>>
  /\ UNCHANGED <<engineVars, dialogVars, typingVars, ledgerVars>>

\* foodRecognition.js:163-166 with useFoodRecognition.js:75-78 and
\* part_002:489: the image fails to load; the catch block of recognizeFromBlob
\* sets the error and nothing else, and handleCameraCapture goes on
DecodeReject(c) ==
  /\ cpc[c] = "decode"
  /\ error' = BlobMessage("Failed to load image")
  /\ cpc' = [cpc EXCEPT ![c] = "undecoded"]
  /\ cameraState' = "idle"
  /\ UNCHANGED <<loaderVars, awaits, initiator, loading, hookModelLoading, hookResults>>
  /\ UNCHANGED <<activeTab, capturedImage, fromBlob>>
  /\ UNCHANGED <<engineVars, dialogVars, typingVars, ledgerVars>>

\* useFoodRecognition.js:84-88
reset ==
  /\ hookResults' = <<>>
  /\ error' = Null
  /\ capturedImage' = Null

\* mobilenet.load fulfils its promise
LoadResolve(p) ==
  /\ p \in Pending(promise)
  /\ promise' = [promise EXCEPT ![p] = [status |-> "resolved", message |-> ""]]
  /\ UNCHANGED <<model, modelLoading, modelLoadPromise, callVars, hookVars>>
  /\ UNCHANGED <<engineVars, dialogVars, cameraVars, typingVars, ledgerVars>>

\* mobilenet.load rejects its promise
LoadReject(p, message) ==
  /\ p \in Pending(promise)
  /\ promise' = [promise EXCEPT ![p] = [status |-> "rejected", message |-> message]]
  /\ UNCHANGED <<model, modelLoading, modelLoadPromise, callVars, hookVars>>
  /\ UNCHANGED <<engineVars, dialogVars, cameraVars, typingVars, ledgerVars>>

\* part_002:486-490 with useFoodRecognition.js:66-79: once recognize() has
\* returned, a recognizeFromBlob that awaited it returns, and handleCameraCapture
\* sets the camera state back to idle
CaptureReturns(c) ==
  /\ cameraState' = IF fromBlob[c] THEN "idle" ELSE cameraState
  /\ UNCHANGED <<activeTab, capturedImage, fromBlob>>

\* the code after await loadModel() in call c: recognizeFood goes on to classify
\* (foodRecognition.js:63) or rethrows into the catch block of recognize
\* (foodRecognition.js:78-81, useFoodRecognition.js:54-59); preloadModel ends
\* either way (useFoodRecognition.js:32-35)
Resume(c, settled) ==
  /\ awaits' = [awaits EXCEPT ![c] = 0]
  /\ initiator' = [initiator EXCEPT ![c] = FALSE]
  /\ IF cpc[c] = "preload"
     THEN /\ cpc' = [cpc EXCEPT ![c] = "idle"]
          /\ hookModelLoading' = FALSE
          /\ UNCHANGED <<loading, error, hookResults, cameraVars>>
     ELSE IF settled.status = "resolved"
     THEN /\ cpc' = [cpc EXCEPT ![c] = "classify"]
          /\ UNCHANGED <<hookVars, cameraVars>>
     ELSE /\ cpc' = [cpc EXCEPT ![c] = "caught"]
          /\ error' = CaughtMessage(settled.message)
          /\ loading' = FALSE
          /\ CaptureReturns(c)
          /\ UNCHANGED <<hookModelLoading, hookResults>>

\* foodRecognition.js:34-42: the call that started the load resumes
LoadModelContinue(c) ==
  /\ cpc[c] \in {"preload", "recognize"}
  /\ initiator[c]
  /\ promise[awaits[c]].status # "pending"
  /\ IF promise[awaits[c]].status = "resolved"
     THEN /\ model' = awaits[c]
          /\ UNCHANGED <<modelLoading, modelLoadPromise>>
     ELSE /\ modelLoading' = FALSE
          /\ modelLoadPromise' = 0
          /\ UNCHANGED model
  /\ Resume(c, promise[awaits[c]])
  /\ UNCHANGED promise
  /\ UNCHANGED <<engineVars, dialogVars, typingVars, ledgerVars>>

\* foodRecognition.js:24: a call that was handed modelLoadPromise resumes
JoinContinue(c) ==
  /\ cpc[c] \in {"preload", "recognize"}
  /\ ~initiator[c]
  /\ promise[awaits[c]].status # "pending"
  /\ Resume(c, promise[awaits[c]])
  /\ UNCHANGED loaderVars
  /\ UNCHANGED <<engineVars, dialogVars, typingVars, ledgerVars>>

\* foodRecognition.js:63-77, useFoodRecognition.js:49-59: classify fulfils
\* with preds
ClassifyResolve(c, preds) ==
  /\ cpc[c] = "classify"
  /\ LET foods == recognizeFoodReturn(preds)
     IN /\ hookResults' = foods
        /\ error' = IF Len(foods) = 0 THEN NoFoodsMessage ELSE error
        /\ cpc' = [cpc EXCEPT ![c] = IF Len(foods) = 0 THEN "empty" ELSE "found"]
  /\ loading' = FALSE
  /\ CaptureReturns(c)
  /\ UNCHANGED <<loaderVars, awaits, initiator, hookModelLoading>>
  /\ UNCHANGED <<engineVars, dialogVars, typingVars, ledgerVars>>

\* foodRecognition.js:63, 78-81, useFoodRecognition.js:54-59: classify rejects
ClassifyReject(c, message) ==
  /\ cpc[c] = "classify"
  /\ error' = CaughtMessage(message)
  /\ loading' = FALSE
  /\ cpc' = [cpc EXCEPT ![c] = "caught"]
  /\ CaptureReturns(c)
  /\ UNCHANGED <<loaderVars, awaits, initiator, hookModelLoading, hookResults>>
  /\ UNCHANGED <<engineVars, dialogVars, typingVars, ledgerVars>>

---------------------------------------------------------------------------
(* FoodSearch dialog: part_002:400-483 and the serving-size input at 640-645 *)

\* constants.js:3-8: the keys of MEAL_TYPES
MealTypes == {"breakfast", "lunch", "dinner", "snack"}

\* raw products behind the remote records of the result list: one with a
\* declared protein per serving, one with a serving size only, one with
\* neither, one whose serving size is negative
DialogProducts ==
  { [code |-> "A1", product_name |-> "Protein Bar",
     nutriments |-> [proteins_100g |-> 1500, proteins_serving |-> 1200, serving_size |-> 80]],
    [code |-> "A2", product_name |-> "Granola",
     nutriments |-> [proteins_100g |-> 1254, serving_size |-> 30]],
    [code |-> "A3", product_name |-> "Skyr", nutriments |-> [proteins_100g |-> 1000]],
    [code |-> "A4", product_name |-> "Oat Drink",
     nutriments |-> [proteins_100g |-> 1000, serving_size |-> -30]] }

\* queries typed into the dialog
DialogQueries == {"egg wh", "whey", "tofu"}

\* part_002:436-454: the records the search tab lists, which are those
\* searchAllFoods returns: curated matches and normalized remote products
\* with protein
SearchListings ==
  UNION {{searchCommonFoods(q)[i] : i \in 1..Len(searchCommonFoods(q))} : q \in DialogQueries}
    \cup {transformProduct(prod) : prod \in {p \in DialogProducts : HasProtein(transformProduct(p))}}

\* the records the camera tab lists: the hook's results
RecognizedListings ==
  UNION {{recognizeFoodReturn(preds)[i] : i \in 1..Len(recognizeFoodReturn(preds))} :
           preds \in HookPredictions}

\* Number(e.target.value) of the serving-size input
InputValues == {-5, 0, 2, 150}

\* food.servingSize || 100 (part_002:459, :465, :495)
ServingSizeOf(food) == IF TruthyNumber(food, "servingSize") THEN food.servingSize ELSE 100

\* part_002:465-466: Math.round(selectedFood.protein * ratio * 10) / 10 with
\* ratio = servingSize / (selectedFood.servingSize || 100)
calculateProteinOf(food, size) ==
  IF ServingSizeOf(food) < 0
  THEN Round1(-(food.protein * size), -ServingSizeOf(food))
  ELSE Round1(food.protein * size, ServingSizeOf(food))

\* part_002:463-467
calculateProtein ==
  IF selectedFood = <<>> THEN 0 ELSE calculateProteinOf(selectedFood[1], chosenSize)

\* part_002:643: Math.max(1, Number(e.target.value))
Clamped(value) == IF value > 1 THEN value ELSE 1

\* part_002:246-248: handleFoodAdd hands mealType || selectedMealType ||
\* 'breakfast' to onAddFood
handleFoodAdd(mealType) ==
  IF mealType \notin {Null, ""} THEN mealType
  ELSE IF selectedMealType \notin {Null, ""} THEN selectedMealType
  ELSE "breakfast"

\* part_002:431, 449: searchCommonFoods('').slice(0, 10)
InitialFoods ==
  LET all == searchCommonFoods("")
  IN SubSeq(all, 1, IF Len(all) < 10 THEN Len(all) ELSE 10)

\* what the user types into the search input
TypedQueries == {"", " ", "whey", "tofu"}

\* the normalized records searchFoods can hand to searchAllFoods
RemoteAnswers ==
  {<<>>} \cup {<<transformProduct(prod)>> :
                 prod \in {p \in DialogProducts : HasProtein(transformProduct(p))}}

\* searches FoodSearch may have under way at once
MaxRequests == 2

\* the sequence s without its i-th element
Without(s, i) == SubSeq(s, 1, i - 1) \o SubSeq(s, i + 1, Len(s))

\* part_002:537, 544 with the effect of 437-454: the input changes the query;
\* the cleanup of the effect clears the timeout of the query before and the
\* effect sets a new one
setQuery(q) ==
  /\ showSearch
  /\ q # searchQuery
  /\ searchQuery' = q
  /\ timer' = q
  /\ UNCHANGED <<searchResults, searchLoading, requests>>
  /\ UNCHANGED <<engineVars, loaderVars, callVars, hookVars, dialogVars, cameraVars, ledgerVars>>

\* part_002:438-452: the timeout fires after 300 ms, with the query of the
\* render that set it; up to the await of searchAllFoods
TimerFires ==
  /\ showSearch
  /\ timer # Null
  /\ timer' = Null
  /\ IF trim(timer) # ""
     THEN /\ Len(requests) < MaxRequests
          /\ searchLoading' = TRUE
          /\ requests' = Append(requests, timer)
          /\ UNCHANGED searchResults
     ELSE /\ searchResults' = InitialFoods
          /\ UNCHANGED <<searchLoading, requests>>
  /\ UNCHANGED searchQuery
  /\ UNCHANGED <<engineVars, loaderVars, callVars, hookVars, dialogVars, cameraVars, ledgerVars>>

\* part_002:442-447 with nutritionApi.js:175-201: the i-th search under way
\* returns, the remote source having given api
SearchReturns(i, api) ==
  /\ showSearch
  /\ i \in 1..Len(requests)
  /\ searchResults' = combined(searchCommonFoods(requests[i]), api)
  /\ searchLoading' = FALSE
  /\ requests' = Without(requests, i)
  /\ UNCHANGED <<searchQuery, timer>>
  /\ UNCHANGED <<engineVars, loaderVars, callVars, hookVars, dialogVars, cameraVars, ledgerVars>>

\* part_002:357-360: onClose of FoodSearch; the component unmounts, which
\* clears its timeout and leaves its searches without a component to update
onClose ==
  /\ showSearch
  /\ showSearch' = FALSE
  /\ selectedMealType' = Null
  /\ timer' = Null
  /\ requests' = <<>>
  /\ UNCHANGED <<selectedFood, chosenSize, selectedMeal, entry>>
  /\ UNCHANGED <<searchQuery, searchResults, searchLoading>>
  /\ UNCHANGED <<engineVars, loaderVars, callVars, hookVars, cameraVars, ledgerVars>>

\* part_002:354-362, 408-410: Dashboard mounts FoodSearch, whose state starts
\* from its useState defaults
MountFoodSearch ==
  /\ showSearch' = TRUE
  /\ selectedFood' = <<>>
  /\ chosenSize' = 100
  /\ selectedMeal' = "breakfast"
  /\ searchQuery' = ""
  /\ searchResults' = InitialFoods
  /\ searchLoading' = FALSE
  /\ timer' = ""
  /\ requests' = <<>>

\* part_002:329-333: the Add Food button of Dashboard
OpenSearch ==
  /\ ~showSearch
  /\ selectedMealType' = Null
  /\ MountFoodSearch
  /\ UNCHANGED entry
  /\ UNCHANGED <<engineVars, loaderVars, callVars, hookVars, cameraVars, ledgerVars>>

\* part_002:240-243 with part_003:40-41: the add button of one meal
handleAddFood(mealType) ==
  /\ ~showSearch
  /\ selectedMealType' = mealType
  /\ MountFoodSearch
  /\ UNCHANGED entry
  /\ UNCHANGED <<engineVars, loaderVars, callVars, hookVars, cameraVars, ledgerVars>>

\* part_002:457-460
handleSelectFood(food) ==
  /\ showSearch
  /\ selectedFood' = <<food>>
  /\ chosenSize' = ServingSizeOf(food)
  /\ UNCHANGED <<showSearch, selectedMeal, selectedMealType, entry>>
  /\ UNCHANGED <<engineVars, loaderVars, callVars, hookVars, cameraVars, typingVars, ledgerVars>>

\* part_002:493-497, with reset of the hook (useFoodRecognition.js:84-88)
handleSelectRecognizedFood(food) ==
  /\ showSearch
  /\ selectedFood' = <<food>>
  /\ chosenSize' = ServingSizeOf(food)
  /\ reset
  /\ UNCHANGED <<showSearch, selectedMeal, selectedMealType, entry, loading, hookModelLoading>>
  /\ UNCHANGED <<cameraState, activeTab, fromBlob>>
  /\ UNCHANGED <<engineVars, loaderVars, callVars, typingVars, ledgerVars>>

\* part_002:557, 572: the tab buttons
setActiveTab(tab) ==
  /\ showSearch
  /\ activeTab' = tab
  /\ UNCHANGED <<cameraState, capturedImage, fromBlob>>
  /\ UNCHANGED <<engineVars, loaderVars, callVars, hookVars, dialogVars, typingVars, ledgerVars>>

\* part_002:500-503 with FoodRecognition.jsx:37-45: the retake button of the
\* camera tab, which is rendered whatever the hook's state
handleRetake ==
  /\ showSearch
  /\ activeTab = "camera"
  /\ ~CameraShown
  /\ reset
  /\ cameraState' = "idle"
  /\ UNCHANGED <<loading, hookModelLoading, activeTab, fromBlob>>
  /\ UNCHANGED <<engineVars, loaderVars, callVars, dialogVars, typingVars, ledgerVars>>

\* part_002:506-510: the manual-search link of the camera tab
handleManualSearch ==
  /\ showSearch
  /\ activeTab = "camera"
  /\ ~CameraShown
  /\ activeTab' = "search"
  /\ reset
  /\ cameraState' = "idle"
  /\ UNCHANGED <<loading, hookModelLoading, fromBlob>>
  /\ UNCHANGED <<engineVars, loaderVars, callVars, dialogVars, typingVars, ledgerVars>>

\* part_002:640-645: the serving-size input, shown once a food is selected
setServingSize(value) ==
  /\ showSearch
  /\ selectedFood # <<>>
  /\ chosenSize' = Clamped(value)
  /\ UNCHANGED <<showSearch, selectedFood, selectedMeal, selectedMealType, entry>>
  /\ UNCHANGED <<engineVars, loaderVars, callVars, hookVars, cameraVars, typingVars, ledgerVars>>

\* part_002:664-675: the meal buttons, shown once a food is selected
setSelectedMeal(meal) ==
  /\ showSearch
  /\ selectedFood # <<>>
  /\ selectedMeal' = meal
  /\ UNCHANGED <<showSearch, selectedFood, chosenSize, selectedMealType, entry>>
  /\ UNCHANGED <<engineVars, loaderVars, callVars, hookVars, cameraVars, typingVars, ledgerVars>>

\* part_002:470-483, with handleFoodAdd and onClose of part_002:357-360; the
\* state of the unmounted dialog stays as it was until it is mounted afresh
handleAdd ==
  /\ showSearch
  /\ selectedFood # <<>>
  /\ entry' = << [meal |-> handleFoodAdd(selectedMeal),
                  food |-> [name |-> selectedFood[1].name,
                            protein |-> calculateProtein,
                            servingSize |-> chosenSize,
                            servingUnit |-> IF TruthyString(selectedFood[1], "servingUnit")
                                            THEN selectedFood[1].servingUnit ELSE "g",
                            source |-> selectedFood[1].source]] >>
  /\ showSearch' = FALSE
  /\ selectedMealType' = Null
  /\ timer' = Null
  /\ requests' = <<>>
  /\ UNCHANGED <<selectedFood, chosenSize, selectedMeal>>
  /\ UNCHANGED <<searchQuery, searchResults, searchLoading>>
  /\ UNCHANGED <<engineVars, loaderVars, callVars, hookVars, cameraVars, ledgerVars>>

---------------------------------------------------------------------------
(* Ledger: the storage service (foodRecognition.js:215-431) and useFoodLog *)

\* constants.js:10
DEFAULT_PROTEIN_GOAL == 150

\* the days the user visits, as toISODateString names them
Dates == {"2024-05-01", "2024-05-02"}

\* new Date() of part_000:9
Today == "2024-05-01"

\* entries the dialog hands to onAddFood (part_002:470-481)
LedgerFoods ==
  { [name |-> "Whey Protein", protein |-> 2500, servingSize |-> 30,
     servingUnit |-> "g", source |-> "common"],
    [name |-> "Oat Drink", protein |-> 100, servingSize |-> 100,
     servingUnit |-> "g", source |-> "openfoodfacts"] }

\* meal types handed to the ledger: one of MEAL_TYPES and one that is none
LedgerMeals == {"breakfast", "brunch"}

\* entries ever added, which caps the ids handed out
MaxItems == 3

\* foodRecognition.js:239-254
getLogByDate(logs, dateKey) ==
  IF dateKey \in DOMAIN logs THEN logs[dateKey]
  ELSE [date |-> dateKey,
        goal |-> DEFAULT_PROTEIN_GOAL,
        meals |-> [m \in MealTypes |-> <<>>],
        totalProtein |-> 0]

\* item.protein || 0
ProteinOrZero(food) == IF TruthyNumber(food, "protein") THEN food.protein ELSE 0

\* a total that leaves out the meals created on the way
calculateStandardProtein(meals) ==
  LET RECURSIVE Total(_)
      Total(s) == IF s = <<>> THEN 0 ELSE ProteinOrZero(Head(s)) + Total(Tail(s))
      RECURSIVE Over(_)
      Over(ms) == IF ms = {} THEN 0
                  ELSE LET m == CHOOSE x \in ms : TRUE IN Total(meals[m]) + Over(ms \ {m})
  IN Over(DOMAIN meals \cap MealTypes)

\* foodRecognition.js:321-325: Object.values(meals).flat().reduce(...)
calculateTotalProtein(meals) ==
  LET RECURSIVE Total(_)
      Total(s) == IF s = <<>> THEN 0 ELSE ProteinOrZero(Head(s)) + Total(Tail(s))
      RECURSIVE Over(_)
      Over(ms) == IF ms = {} THEN 0
                  ELSE LET m == CHOOSE x \in ms : TRUE IN Total(meals[m]) + Over(ms \ {m})
  IN Over(DOMAIN meals)

\* foodRecognition.js:262-264: logs[log.date] = log
saveLog(logs, lg) ==
  [k \in DOMAIN logs \cup {lg.date} |-> IF k = lg.date THEN lg ELSE logs[k]]

\* foodRecognition.js:278-293: the log addFoodToMeal builds before it saves
addFoodToMeal(logs, dateKey, mealType, foodItem, id) ==
  LET lg == getLogByDate(logs, dateKey)
      before == IF mealType \in DOMAIN lg.meals THEN lg.meals[mealType] ELSE <<>>
      pushed == [k \in DOMAIN foodItem \cup {"id", "timestamp"} |->
                   IF k \in {"id", "timestamp"} THEN id ELSE foodItem[k]]
      meals == [m \in DOMAIN lg.meals \cup {mealType} |->
                  IF m = mealType THEN Append(before, pushed) ELSE lg.meals[m]]
  IN [lg EXCEPT !.meals = meals, !.totalProtein = calculateTotalProtein(meals)]

\* foodRecognition.js:303-312: the log removeFoodFromMeal builds before it saves
removeFoodFromMeal(logs, dateKey, mealType, foodId) ==
  LET lg == getLogByDate(logs, dateKey)
      Kept(it) == it.id # foodId
      meals == [m \in DOMAIN lg.meals |->
                  IF m = mealType THEN SelectSeq(lg.meals[m], Kept) ELSE lg.meals[m]]
  IN [lg EXCEPT !.meals = meals, !.totalProtein = calculateTotalProtein(meals)]

\* foodRecognition.js:390: recent.slice(0, 20)
RecentLimit == 20

\* a recent list that only grows at the front
addRecentFoodKeepAll(recent, food) ==
  << [k \in {"name", "protein", "servingSize", "servingUnit", "source"} \cap DOMAIN food |->
        food[k]] >> \o recent

\* foodRecognition.js:375-390: the list addRecentFood writes; a property the
\* food lacks is undefined and is left out by JSON.stringify
addRecentFood(recent, food) ==
  LET Other(f) == f.name # food.name
      entryOf == [k \in {"name", "protein", "servingSize", "servingUnit", "source"}
                          \cap DOMAIN food |-> food[k]]
      unshifted == <<entryOf>> \o SelectSeq(recent, Other)
  IN SubSeq(unshifted, 1, IF Len(unshifted) < RecentLimit THEN Len(unshifted) ELSE RecentLimit)

\* the k-th food of a user who logs one food after another
RecentFood(k) ==
  [name |-> "Food " \o ToString(k), protein |-> 100 * k, servingSize |-> 100,
   servingUnit |-> "g", source |-> "common"]

\* the list after foods 1..n were added in turn to an empty list
RecentAfter(n) == [i \in 1..n |-> RecentFood(n + 1 - i)]

\* stored lists the calls start from: every length up to the limit
StartLists == {RecentAfter(n) : n \in 0..RecentLimit}

\* foods handed to addRecentFood: the oldest and one of the middle of a full
\* list, the latter also with another protein and with its name in capitals,
\* and one that is new
RecentInputs ==
  { RecentFood(1), RecentFood(10),
    [RecentFood(10) EXCEPT !.protein = 5],
    [RecentFood(10) EXCEPT !.name = "FOOD 10"],
    RecentFood(RecentLimit + 1) }

\* foodRecognition.js:373-398: a call of addRecentFood (saveRecentFood of
\* useFoodLog.js:10); saved tells whether localStorage.setItem goes through
saveRecentFood(food, saved) ==
  /\ storedRecent' = IF saved THEN addRecentFood(storedRecent, food) ELSE storedRecent
  /\ returned' = <<saved>>
  /\ UNCHANGED <<storedLogs, currentDate, log, nextId>>
  /\ UNCHANGED <<engineVars, loaderVars, callVars, hookVars, dialogVars, cameraVars, typingVars>>

\* useFoodLog.js:29-38 with foodRecognition.js:278-295, 260-270, 373-398:
\* addFood of the hook; logSaved and recentSaved tell whether
\* localStorage.setItem goes through for each of the two writes
addFood(mealType, foodItem, logSaved, recentSaved) ==
  /\ nextId < MaxItems
  /\ nextId' = nextId + 1
  /\ LET updatedLog == addFoodToMeal(storedLogs, currentDate, mealType, foodItem, nextId + 1)
     IN IF logSaved
        THEN /\ storedLogs' = saveLog(storedLogs, updatedLog)
             /\ log' = updatedLog
             /\ storedRecent' = IF recentSaved THEN addRecentFood(storedRecent, foodItem)
                                ELSE storedRecent
             /\ returned' = << [service |-> <<updatedLog>>, hook |-> TRUE] >>
        ELSE /\ returned' = << [service |-> <<>>, hook |-> FALSE] >>
             /\ UNCHANGED <<storedLogs, log, storedRecent>>
  /\ UNCHANGED currentDate
  /\ UNCHANGED <<engineVars, loaderVars, callVars, hookVars, dialogVars, cameraVars, typingVars>>

\* useFoodLog.js:41-48 with foodRecognition.js:303-314, 260-270: removeFood of
\* the hook, for the i-th entry the meal shows
removeFood(mealType, i, logSaved) ==
  /\ mealType \in DOMAIN log.meals
  /\ i \in 1..Len(log.meals[mealType])
  /\ LET updatedLog == removeFoodFromMeal(storedLogs, currentDate, mealType,
                                          log.meals[mealType][i].id)
     IN IF logSaved
        THEN /\ storedLogs' = saveLog(storedLogs, updatedLog)
             /\ log' = updatedLog
             /\ returned' = << [service |-> <<updatedLog>>, hook |-> TRUE] >>
        ELSE /\ returned' = << [service |-> <<>>, hook |-> FALSE] >>
             /\ UNCHANGED <<storedLogs, log>>
  /\ UNCHANGED <<storedRecent, currentDate, nextId>>
  /\ UNCHANGED <<engineVars, loaderVars, callVars, hookVars, dialogVars, cameraVars, typingVars>>

\* part_000:13-15 with useFoodLog.js:24-26: another day is shown
handleDateChange(date) ==
  /\ date # currentDate
  /\ currentDate' = date
  /\ log' = getLogByDate(storedLogs, date)
  /\ UNCHANGED <<storedLogs, storedRecent, returned, nextId>>
  /\ UNCHANGED <<engineVars, loaderVars, callVars, hookVars, dialogVars, cameraVars, typingVars>>

---------------------------------------------------------------------------
(* Specifications *)

\* everything but the stored recent foods
InitExceptRecent ==
  /\ pc = "idle"
  /\ query = ""
  /\ commonResults = <<>>
  /\ data = EmptyObject
  /\ textData = [products |-> <<>>]
  /\ textResponseOk = FALSE
  /\ failure = "none"
  /\ apiResults = <<>>
  /\ results = <<>>
  /\ npc = "idle"
  /\ product = EmptyObject
  /\ item = <<>>
  /\ rpc = "idle"
  /\ predictions = <<>>
  /\ foodResults = <<>>
  /\ model = 0
  /\ modelLoading = FALSE
  /\ modelLoadPromise = 0
  /\ promise = <<>>
  /\ cpc = [c \in Callers |-> "idle"]
  /\ awaits = [c \in Callers |-> 0]
  /\ initiator = [c \in Callers |-> FALSE]
  /\ loading = FALSE
  /\ hookModelLoading = FALSE
  /\ error = Null
  /\ hookResults = <<>>
  /\ showSearch = FALSE
  /\ selectedFood = <<>>
  /\ chosenSize = 100
  /\ selectedMeal = "breakfast"
  /\ selectedMealType = Null
  /\ entry = <<>>
  /\ cameraState = "idle"
  /\ activeTab = "search"
  /\ capturedImage = Null
  /\ fromBlob = [c \in Callers |-> FALSE]
  /\ searchQuery = ""
  /\ searchResults = <<>>
  /\ searchLoading = FALSE
  /\ timer = Null
  /\ requests = <<>>
  /\ storedLogs = EmptyObject
  /\ currentDate = Today
  /\ log = getLogByDate(EmptyObject, Today)
  /\ returned = <<>>
  /\ nextId = 0

Init == InitExceptRecent /\ storedRecent = <<>>

\* the text search of the FoodSearch dialog
Next ==
  \/ \E q \in Queries : Search(q)
  \/ \E body \in ResponseBodies : StructuredOk(body)
  \/ \E why \in {"network", "status", "json"} : StructuredFail(why)
  \/ \E body \in ResponseBodies : TextOk(body)
  \/ TextNotOk
  \/ \E why \in {"network", "json"} : TextFail(why)

Spec == Init /\ [][Next]_vars

\* the barcode lookup, which hands transformProduct's record to its caller
NextBarcode ==
  \/ \E prod \in RawProducts : BarcodeFound(prod)
  \/ BarcodeNotFound
  \/ BarcodeError

SpecBarcode == Init /\ [][NextBarcode]_vars

\* the label resolver
NextRecognize ==
  \/ Recognize
  \/ \E preds \in ClassifierOutputs : ClassifyOk(preds)
  \/ ClassifyFail

SpecRecognize == Init /\ [][NextRecognize]_vars

\* mapToFoodItem over the labels that are table keys
NextTable ==
  \E k \in 1..Len(FOOD_CLASS_MAPPINGS), probability \in Probabilities :
     MapKeyLabel(k, probability)

SpecTable == Init /\ [][NextTable]_vars

\* the hook's calls on the shared model
NextModel ==
  \/ \E c \in Callers : preloadModel(c)
  \/ \E c \in Callers : recognize(c)
  \/ \E p \in 1..MaxLoads : LoadResolve(p)
  \/ \E p \in 1..MaxLoads, message \in ErrorMessages : LoadReject(p, message)
  \/ \E c \in Callers : LoadModelContinue(c)
  \/ \E c \in Callers : JoinContinue(c)
  \/ \E c \in Callers, preds \in HookPredictions : ClassifyResolve(c, preds)
  \/ \E c \in Callers, message \in ErrorMessages : ClassifyReject(c, message)

SpecModel == Init /\ [][NextModel]_vars

\* one mounted FoodSearch with its camera tab: the preload of the mount
\* effect, captures, and the buttons of the recognition view
NextCamera ==
  \/ OpenSearch
  \/ \E tab \in {"search", "camera"} : setActiveTab(tab)
  \/ \E c \in Callers : showSearch /\ preloadModel(c)
  \/ \E c \in Callers : handleCameraCapture(c)
  \/ \E c \in Callers, image \in Images : DecodeResolve(c, image)
  \/ \E c \in Callers : DecodeReject(c)
  \/ \E p \in 1..MaxLoads : LoadResolve(p)
  \/ \E p \in 1..MaxLoads, message \in ErrorMessages : LoadReject(p, message)
  \/ \E c \in Callers : LoadModelContinue(c)
  \/ \E c \in Callers : JoinContinue(c)
  \/ \E c \in Callers, preds \in HookPredictions : ClassifyResolve(c, preds)
  \/ \E c \in Callers, message \in ErrorMessages : ClassifyReject(c, message)
  \/ \E i \in 1..Len(hookResults) :
        /\ activeTab = "camera" /\ ~loading /\ error = Null
        /\ handleSelectRecognizedFood(hookResults[i])
  \/ handleRetake
  \/ handleManualSearch

SpecCamera == Init /\ [][NextCamera]_vars

\* the search tab of one FoodSearch after another: typing, the debounce
\* timeout, and the searches returning in any order
NextTyping ==
  \/ OpenSearch
  \/ \E q \in TypedQueries : setQuery(q)
  \/ TimerFires
  \/ \E i \in 1..MaxRequests, api \in RemoteAnswers : SearchReturns(i, api)
  \/ onClose

SpecTyping == Init /\ [][NextTyping]_vars

\* the ledger behind the dashboard
NextLedger ==
  \/ \E mealType \in LedgerMeals, foodItem \in LedgerFoods, logSaved, recentSaved \in BOOLEAN :
        addFood(mealType, foodItem, logSaved, recentSaved)
  \/ \E mealType \in LedgerMeals, i \in 1..MaxItems, logSaved \in BOOLEAN :
        removeFood(mealType, i, logSaved)
  \/ \E date \in Dates : handleDateChange(date)

SpecLedger == Init /\ [][NextLedger]_vars

\* addRecentFood on a stored list of any length
NextRecent == \E food \in RecentInputs, saved \in BOOLEAN : saveRecentFood(food, saved)

\* a list earlier sessions have filled
InitRecent == InitExceptRecent /\ storedRecent \in StartLists

SpecRecent == InitRecent /\ [][NextRecent]_vars

\* the steps call c takes by itself once its promise has settled, and the
\* answer of a classifier that is loaded
ProgramSteps(c) ==
  \/ LoadModelContinue(c)
  \/ JoinContinue(c)
  \/ \E preds \in HookPredictions : ClassifyResolve(c, preds)
  \/ \E message \in ErrorMessages : ClassifyReject(c, message)

\* every call that can go on does go on; nothing makes mobilenet.load settle
SpecModelFair == SpecModel /\ \A c \in Callers : WF_vars(ProgramSteps(c))

\* the FoodSearch dialog
NextDialog ==
  \/ OpenSearch
  \/ \E mealType \in MealTypes : handleAddFood(mealType)
  \/ \E food \in SearchListings : handleSelectFood(food)
  \/ \E food \in RecognizedListings : handleSelectRecognizedFood(food)
  \/ \E value \in InputValues : setServingSize(value)
  \/ \E meal \in MealTypes : setSelectedMeal(meal)
  \/ handleAdd

SpecDialog == Init /\ [][NextDialog]_vars

---------------------------------------------------------------------------
(* Vocabulary of the properties *)

\* a and b are the same string up to the case of their letters
EqualsIgnoringCase(a, b) ==
  /\ Len(a) = Len(b)
  /\ \A i \in 1..Len(a) : LowerChar(SubSeq(a, i, i)) = LowerChar(SubSeq(b, i, i))

\* sub occurs in s up to the case of the letters
ContainsIgnoringCase(s, sub) ==
  \E i \in 1..(Len(s) - Len(sub) + 1) :
     EqualsIgnoringCase(SubSeq(s, i, i + Len(sub) - 1), sub)

\* no two records of the list have the same id
UniqueIds(list) ==
  \A i, j \in 1..Len(list) : i # j => list[i].id # list[j].id

\* the rank of i in the set S of indexes
Rank(S, i) == Cardinality({j \in S : j <= i})

\* the raw products of the two responses, structured query first
AllProducts == ProductsOf(data) \o ProductsOf(textData)

\* the places of AllProducts that hold the first product of their identity key
FirstOccurrences ==
  {i \in 1..Len(AllProducts) :
     \A j \in 1..(i - 1) : CodeOf(AllProducts[j]) # CodeOf(AllProducts[i])}

\* the first occurrences whose normalized protein per 100 is positive
Survivors == {i \in FirstOccurrences : transformProduct(AllProducts[i]).protein > 0}

\* the places of COMMON_FOODS whose name contains q, case-insensitively
CuratedIndexes(q) ==
  {i \in 1..Len(COMMON_FOODS) : ContainsIgnoringCase(COMMON_FOODS[i].name, q)}

\* CuratedIndexes, tabulated for the queries
QueryMatches == [q \in Queries |-> CuratedIndexes(q)]

\* the remote record has the name of a curated match of q, case-insensitively
NamesCuratedMatch(q, food) ==
  \E i \in QueryMatches[q] : EqualsIgnoringCase(COMMON_FOODS[i].name, food.name)

\* searchFoods ran to its return statement
Merged == pc = "done" /\ failure = "none"

---------------------------------------------------------------------------
(* Result Merger *)

(* C1: the list searchFoods returns from the structured-query array and the *)
(* text-query array holds no two records with the same id, and every id is  *)
(* the code of a raw product of one of the two arrays.                      *)
MergerKeysUnique ==
  Merged =>
    /\ UniqueIds(apiResults)
    /\ \A n \in 1..Len(apiResults) :
          \E i \in 1..Len(AllProducts) : apiResults[n].id = CodeOf(AllProducts[i])

\* both arrays hold the same identity key and two records survive
MergerKeysUniqueWitness ==
  /\ Merged
  /\ \E i \in 1..Len(ProductsOf(data)), j \in 1..Len(ProductsOf(textData)) :
        CodeOf(ProductsOf(data)[i]) = CodeOf(ProductsOf(textData)[j])
  /\ Len(apiResults) = 2

(* C2: searchFoods returns the reference pipeline: the structured-query      *)
(* array followed by the text-query array, only the first occurrence of each *)
(* identity key kept, each survivor normalized, then every record with       *)
(* protein per 100 <= 0 dropped; survivors keep their first-seen order, and  *)
(* a key whose first occurrence normalizes to no protein is absent even when *)
(* a later occurrence has protein.                                           *)
MergerIsReferencePipeline ==
  Merged =>
    /\ Len(apiResults) = Cardinality(Survivors)
    /\ \A i \in Survivors :
          apiResults[Rank(Survivors, i)] = transformProduct(AllProducts[i])

\* one key is in both arrays under two names and survives under the first; another
\* key's first occurrence has no protein, a later one has, and the key is absent
MergerIsReferencePipelineWitness ==
  /\ Merged
  /\ \E i \in Survivors, j \in 1..Len(AllProducts) :
        /\ i <= Len(ProductsOf(data)) /\ j > Len(ProductsOf(data))
        /\ CodeOf(AllProducts[i]) = CodeOf(AllProducts[j])
        /\ transformProduct(AllProducts[i]).name # transformProduct(AllProducts[j]).name
        /\ apiResults[Rank(Survivors, i)].name = transformProduct(AllProducts[i]).name
  /\ \E i \in FirstOccurrences \ Survivors, j \in 1..Len(AllProducts) :
        /\ i < j
        /\ CodeOf(AllProducts[i]) = CodeOf(AllProducts[j])
        /\ transformProduct(AllProducts[j]).protein > 0
        /\ \A n \in 1..Len(apiResults) : apiResults[n].id # CodeOf(AllProducts[i])

---------------------------------------------------------------------------
(* Source-Priority Combiner *)

(* C3: searchAllFoods(q) returns the curated foods whose name contains q     *)
(* case-insensitively, in COMMON_FOODS order, followed in remote order by    *)
(* the remote records whose name is not case-insensitively equal to the name *)
(* of a curated match of q.                                                  *)
CombinerOutput ==
  pc = "done" =>
    LET C == QueryMatches[query]
        Kept(food) == ~NamesCuratedMatch(query, food)
        remote == SelectSeq(apiResults, Kept)
    IN /\ Len(results) = Cardinality(C) + Len(remote)
       /\ \A i \in C :
             \A k \in DOMAIN COMMON_FOODS[i] :
                results[Rank(C, i)][k] = COMMON_FOODS[i][k]
       /\ \A n \in 1..Len(remote) : results[Cardinality(C) + n] = remote[n]

\* q has a curated match; one remote record spells a curated match in another
\* case and is dropped, another remote record is kept
CombinerOutputWitness ==
  /\ pc = "done"
  /\ QueryMatches[query] # {}
  /\ \E n \in 1..Len(apiResults) :
        /\ NamesCuratedMatch(query, apiResults[n])
        /\ \A i \in 1..Len(COMMON_FOODS) : COMMON_FOODS[i].name # apiResults[n].name
        /\ \A m \in 1..Len(results) : results[m].name # apiResults[n].name
  /\ \E n \in 1..Len(apiResults), m \in 1..Len(results) : results[m] = apiResults[n]

(* C4: when the remote lookup fails (a fetch rejects, the structured query   *)
(* answers a non-success status, or reading a body throws), searchAllFoods   *)
(* still returns, and returns the curated-only matches searchCommonFoods(q). *)
RemoteFailureDegrades ==
  failure # "none" =>
    /\ pc = "done"
    /\ results = searchCommonFoods(query)

\* the structured query had delivered a record with protein, the text query
\* failed, and curated matches are returned
RemoteFailureDegradesWitness ==
  /\ pc = "done"
  /\ failure = "network"
  /\ Survivors # {}
  /\ Len(results) > 0

(* C5: for every curated food name n matched by q, the list searchAllFoods(q) *)
(* returns holds exactly one record whose name equals n case-insensitively,  *)
(* whatever the remote source returns.                                       *)
CuratedNameOnce ==
  pc = "done" =>
    \A i \in QueryMatches[query] :
       Cardinality({n \in 1..Len(results) :
                      EqualsIgnoringCase(results[n].name, COMMON_FOODS[i].name)}) = 1

(* C6: in every result list handed to a caller, by searchAllFoods and by     *)
(* recognizeFood on its direct-mapping path and on its fuzzy path, no two    *)
(* records have the same id.                                                 *)
ResultIdsUnique ==
  /\ pc = "done" => UniqueIds(results)
  /\ rpc = "done" => UniqueIds(foodResults)

---------------------------------------------------------------------------
(* Record Normalizer *)

\* the nutrient map transformProduct read, {} when the product has none
NutrimentsRead == IF "nutriments" \in DOMAIN product THEN product.nutriments ELSE EmptyObject

\* the record getFoodByBarcode returned
Normalized == item[1]

\* every value of the nutrient map is a quantity, none negative
WellFormed == \A k \in DOMAIN NutrimentsRead : NutrimentsRead[k] >= 0

\* the distance between two quantities
Distance(a, b) == IF a < b THEN b - a ELSE a - b

(* C7: transformProduct is total: for every raw record, also one with no     *)
(* nutrient map or with missing or odd-valued fields, it returns a record,   *)
(* and the returned protein per 100 is >= 0 (0 when the nutrient map is      *)
(* missing).                                                                 *)
NormalizerNonNegative ==
  npc = "done" =>
    /\ Len(item) = 1
    /\ Normalized.protein >= 0
    /\ "nutriments" \notin DOMAIN product => Normalized.protein = 0

(* C8: transformProduct takes protein per 100 from the primary key           *)
(* proteins_100g whenever that key is present in the nutrient map, and       *)
(* consults the secondary key proteins only when the primary key is absent;  *)
(* a present primary value of 0 is not replaced by the secondary value.      *)
(* Stated for the nutrient maps that hold no negative value.                 *)
PrimaryKeyWins ==
  (npc = "done" /\ WellFormed) =>
    IF "proteins_100g" \in DOMAIN NutrimentsRead
    THEN Normalized.protein = Round1(NutrimentsRead.proteins_100g, 1)
    ELSE IF "proteins" \in DOMAIN NutrimentsRead
    THEN Normalized.protein = Round1(NutrimentsRead.proteins, 1)
    ELSE Normalized.protein = 0

(* C9: if the source supplies a directly measured per-serving protein value  *)
(* (0 included), proteinPerServing is that value rounded to one decimal;     *)
(* otherwise it is the record's protein per 100 times its servingSize over   *)
(* 100, to within the one-decimal rounding, servingSize defaulting to 100.   *)
(* Stated for the nutrient maps that hold no negative value.                 *)
PerServingRule ==
  (npc = "done" /\ WellFormed) =>
    /\ "serving_size" \notin DOMAIN NutrimentsRead => Normalized.servingSize = 100
    /\ IF "proteins_serving" \in DOMAIN NutrimentsRead
       THEN Normalized.proteinPerServing = Round1(NutrimentsRead.proteins_serving, 1)
       ELSE Distance(Normalized.proteinPerServing,
                     Round1(Normalized.protein * Normalized.servingSize, 100)) <= 10

---------------------------------------------------------------------------
(* Label Resolver *)

\* the label contains a key of FOOD_CLASS_MAPPINGS, case-insensitively
HasDirectKey(label) ==
  \E i \in 1..Len(FOOD_CLASS_MAPPINGS) :
     ContainsIgnoringCase(label, FOOD_CLASS_MAPPINGS[i].key)

\* a keyword of the label is contained in the name of a curated food
HasCuratedKeyword(label) ==
  \E n \in 1..Len(split(label)) : CuratedIndexes(trim(split(label)[n])) # {}

\* a pair the resolver has to answer: its label maps directly, or no pair at or
\* above the threshold maps directly and one of its keywords is curated
Resolvable(i) ==
  \/ HasDirectKey(predictions[i].className)
  \/ /\ HasCuratedKeyword(predictions[i].className)
     /\ \A j \in 1..Len(predictions) :
           predictions[j].probability >= MIN_CONFIDENCE
             => ~HasDirectKey(predictions[j].className)

(* C10: when every probability of the classifier output is below             *)
(* MIN_CONFIDENCE, recognizeFood returns the empty list: neither the direct  *)
(* mapping nor the fuzzy fallback emits a record; a pair whose probability   *)
(* is exactly MIN_CONFIDENCE is not discarded.                               *)
BelowThresholdEmpty ==
  rpc = "done" =>
    /\ (\A i \in 1..Len(predictions) : predictions[i].probability < MIN_CONFIDENCE)
          => foodResults = <<>>
    /\ \A i \in 1..Len(predictions) :
          (predictions[i].probability = MIN_CONFIDENCE /\ Resolvable(i))
            => \E n \in 1..Len(foodResults) :
                  /\ foodResults[n].originalClass = predictions[i].className
                  /\ 10 * foodResults[n].confidence = MIN_CONFIDENCE

\* every pair is below the threshold, one label maps directly, another has a
\* curated keyword, and nothing is returned
BelowThresholdEmptyWitness ==
  /\ rpc = "done"
  /\ \A i \in 1..Len(predictions) : predictions[i].probability < MIN_CONFIDENCE
  /\ \E i, j \in 1..Len(predictions) :
        /\ HasDirectKey(predictions[i].className)
        /\ ~HasDirectKey(predictions[j].className)
        /\ HasCuratedKeyword(predictions[j].className)
  /\ foodResults = <<>>

\* the places of FOOD_CLASS_MAPPINGS whose key each label contains
DirectKeys ==
  [label \in Labels |->
     {i \in 1..Len(FOOD_CLASS_MAPPINGS) :
        ContainsIgnoringCase(label, FOOD_CLASS_MAPPINGS[i].key)}]

\* the table entry a label maps to: the first whose key it contains
MappedEntry(label) ==
  FOOD_CLASS_MAPPINGS[CHOOSE i \in DirectKeys[label] : \A j \in DirectKeys[label] : i <= j]

\* the curated food each label stands for on the fuzzy path: the first curated
\* match of its first keyword that has one; the empty sequence when it has none
FuzzyMatch ==
  [label \in Labels |->
     LET keywords == [n \in 1..Len(split(label)) |-> trim(split(label)[n])]
         hits == {n \in 1..Len(keywords) : CuratedIndexes(keywords[n]) # {}}
     IN IF hits = {} THEN <<>>
        ELSE LET n == CHOOSE m \in hits : \A o \in hits : m <= o
                 C == CuratedIndexes(keywords[n])
             IN <<COMMON_FOODS[CHOOSE i \in C : \A j \in C : i <= j]>>]

\* the surviving pairs whose label maps directly
DirectPairs ==
  {i \in 1..Len(predictions) :
     /\ predictions[i].probability >= MIN_CONFIDENCE
     /\ DirectKeys[predictions[i].className] # {}}

\* the surviving pairs whose label has a curated keyword
FuzzyPairs ==
  {i \in 1..Len(predictions) :
     /\ predictions[i].probability >= MIN_CONFIDENCE
     /\ FuzzyMatch[predictions[i].className] # <<>>}

\* c is probability * 100 rounded to the nearest whole number, within 0..100
IsRoundedPercent(c, probability) ==
  /\ c \in 0..100
  /\ 10 * c - 5 <= probability
  /\ probability < 10 * c + 5

(* C11: when a surviving pair has a label that contains a key of             *)
(* FOOD_CLASS_MAPPINGS, recognizeFood returns exactly one record per such    *)
(* pair and nothing else, in classifier order, each with source              *)
(* 'recognition', confidence = round(probability * 100) in 0..100, and the   *)
(* name and protein of the mapped key.                                       *)
DirectMappingOutput ==
  (rpc = "done" /\ DirectPairs # {}) =>
    /\ Len(foodResults) = Cardinality(DirectPairs)
    /\ \A i \in DirectPairs :
          LET r == foodResults[Rank(DirectPairs, i)]
              mapped == MappedEntry(predictions[i].className)
          IN /\ r.originalClass = predictions[i].className
             /\ r.source = "recognition"
             /\ IsRoundedPercent(r.confidence, predictions[i].probability)
             /\ r.name = mapped.name
             /\ r.protein = mapped.protein

\* [(cheeseburger, 0.82), (plate, 0.10)] gives the one record Cheeseburger, 82
DirectMappingOutputWitness ==
  /\ rpc = "done"
  /\ predictions = << [className |-> "cheeseburger", probability |-> 820],
                      [className |-> "plate", probability |-> 100] >>
  /\ Len(foodResults) = 1
  /\ foodResults[1].name = "Cheeseburger"
  /\ foodResults[1].confidence = 82

(* C12: the fuzzy fallback is all-or-nothing: when at least one surviving    *)
(* pair mapped directly, every surviving pair without a direct mapping       *)
(* contributes nothing, even when one of its keywords matches a curated food.*)
FuzzyAllOrNothing ==
  (rpc = "done" /\ DirectPairs # {}) =>
    \A n \in 1..Len(foodResults) :
       \E i \in DirectPairs : foodResults[n].originalClass = predictions[i].className

\* one surviving pair maps directly, another has only a curated keyword, and
\* the one record returned is the direct one
FuzzyAllOrNothingWitness ==
  /\ rpc = "done"
  /\ DirectPairs # {}
  /\ FuzzyPairs \ DirectPairs # {}
  /\ Len(foodResults) = Cardinality(DirectPairs)

(* C13: on the fuzzy path each surviving label contributes at most one       *)
(* record: the label is split on comma and slash into trimmed keywords, the  *)
(* keywords are tried in order, and the record is the first curated food (in *)
(* COMMON_FOODS order) matched by the first keyword that has a match,        *)
(* re-tagged source 'recognition' with confidence round(probability * 100);  *)
(* a label with no matching keyword contributes nothing, and the records     *)
(* appear in label order.                                                    *)
FuzzyOutput ==
  (rpc = "done" /\ DirectPairs = {}) =>
    /\ Len(foodResults) = Cardinality(FuzzyPairs)
    /\ \A i \in FuzzyPairs :
          LET r == foodResults[Rank(FuzzyPairs, i)]
              food == FuzzyMatch[predictions[i].className][1]
          IN /\ r.originalClass = predictions[i].className
             /\ r.source = "recognition"
             /\ IsRoundedPercent(r.confidence, predictions[i].probability)
             /\ r.name = food.name
             /\ r.protein = food.protein
             /\ r.servingSize = food.servingSize
             /\ r.servingUnit = food.servingUnit

\* a label whose second keyword is the first with curated matches, of which the
\* first is taken, beside a surviving label with no curated keyword
FuzzyOutputWitness ==
  /\ rpc = "done"
  /\ predictions = << [className |-> "Bowl, Seeds", probability |-> 300],
                      [className |-> "plate", probability |-> 300] >>
  /\ Cardinality(CuratedIndexes("seeds")) > 1
  /\ Len(foodResults) = 1
  /\ foodResults[1].name = "Pumpkin Seeds"

---------------------------------------------------------------------------
(* Classifier loading and the recognition hook *)

\* the calls suspended on loadModel()
AwaitingLoad == {c \in Callers : cpc[c] \in {"preload", "recognize"}}

\* the calls of recognize that have not settled
Recognizing == {c \in Callers : cpc[c] \in {"recognize", "classify"}}

(* C18: under any interleaving of the calls, mobilenet.load is invoked only   *)
(* when no load is in flight and none has succeeded, so at most one load is  *)
(* in flight at any time; a call that arrives while a load is in flight      *)
(* waits for that same load and starts none.                                 *)
SingleLoadShared ==
  [][/\ Len(promise') > Len(promise) =>
          \A p \in 1..Len(promise) : promise[p].status = "rejected"
     /\ Cardinality(Pending(promise')) <= 1
     /\ \A c \in Callers :
          (c \notin AwaitingLoad /\ c \in AwaitingLoad' /\ Pending(promise) # {}) =>
             /\ awaits'[c] \in Pending(promise)
             /\ promise' = promise]_vars

\* two calls wait for the one load in flight
SingleLoadSharedWitness ==
  \E c, d \in AwaitingLoad :
     /\ c # d
     /\ awaits[c] = awaits[d]
     /\ awaits[c] \in Pending(promise)
     /\ Len(promise) = 1

(* C19: every call of recognize eventually settles, with results, with an    *)
(* empty result or with a failure, even when mobilenet.load never settles.   *)
RecognitionSettles ==
  \A c \in Callers : (c \in Recognizing) ~> (cpc[c] \in {"caught", "empty", "found"})

(* C20: when the classifier fails to initialize or to classify, recognize    *)
(* leaves the hook with loading false and an error that is neither null nor  *)
(* the message of a request that ran and recognized no food; such a request  *)
(* leaves that message.                                                      *)
FailureIsExplicit ==
  [][\A c \in Recognizing :
       /\ cpc'[c] = "caught" =>
            /\ error' \notin {Null, NoFoodsMessage}
            /\ loading' = FALSE
       /\ cpc'[c] = "empty" =>
            /\ error' = NoFoodsMessage
            /\ hookResults' = <<>>
            /\ loading' = FALSE]_vars

\* a request has failed on a model that never loaded and the error is exposed
FailureIsExplicitWitness ==
  \E c \in Callers :
     /\ cpc[c] = "caught"
     /\ model = 0
     /\ error = "Failed to recognize food"
     /\ loading = FALSE

---------------------------------------------------------------------------
(* Serving scaler of the FoodSearch dialog *)

\* the dialog has just handed an entry to onAdd for the record r
Added == ~showSearch /\ entry # <<>> /\ selectedFood # <<>>

(* C15: for every chosen size s >= 1 and every record, here every remote     *)
(* record with a positive declared serving size, whose protein is per 100 g, *)
(* the protein written to the ledger entry is the record's protein per 100   *)
(* scaled by s / 100 and rounded to one decimal.                             *)
ScalesPer100 ==
  (/\ Added
   /\ selectedFood[1].source = "openfoodfacts"
   /\ selectedFood[1].servingSize > 0
   /\ chosenSize >= 1) =>
     entry[1].food.protein = Round1(selectedFood[1].protein * chosenSize, 100)

(* C16: for every normalized record with a positive serving size, the        *)
(* protein written for a chosen size equal to the record's serving size is   *)
(* the record's protein per serving, within 0.1 g.                           *)
IdentityScaling ==
  (/\ Added
   /\ "proteinPerServing" \in DOMAIN selectedFood[1]
   /\ selectedFood[1].servingSize > 0
   /\ chosenSize = selectedFood[1].servingSize) =>
     Distance(entry[1].food.protein, selectedFood[1].proteinPerServing) <= 10

(* C17: in every state of the dialog with a selected record the serving      *)
(* size that calculateProtein divides is positive, and so is the serving     *)
(* size of every entry handed to onAdd.                                      *)
ServingSizePositive ==
  /\ (showSearch /\ selectedFood # <<>>) => chosenSize > 0
  /\ entry # <<>> => entry[1].food.servingSize > 0

(* C21: once a load of the classifier has failed and loadModel has run its   *)
(* catch block, the status getModelStatus and isModelLoaded expose differs   *)
(* from the status exposed before any load was attempted.                    *)
FailureQueryable ==
  (/\ Len(promise) > 0
   /\ \A p \in 1..Len(promise) : promise[p].status = "rejected"
   /\ \A c \in Callers : ~initiator[c]) =>
     <<getModelStatus, isModelLoaded>> # <<[loaded |-> FALSE, loading |-> FALSE], FALSE>>

---------------------------------------------------------------------------
(* Failures of the remote source *)

(* C22: when the structured query delivered products and the text query      *)
(* failed, by a status that is not 2xx or by a network error, searchFoods    *)
(* returns the normalized records of the structured query.                   *)
PartialFailureDegrades ==
  (pc = "done" /\ ~textResponseOk /\ ProductsOf(data) # <<>>) =>
     /\ Len(apiResults) = Cardinality(Survivors)
     /\ \A i \in Survivors :
           apiResults[Rank(Survivors, i)].id = CodeOf(ProductsOf(data)[i])

\* the raw product lacks its identity code, its name, its nutrient map or its
\* serving size
Malformed(prod) ==
  \/ {"code", "product_name", "nutriments"} \ DOMAIN prod # {}
  \/ "serving_size" \notin DOMAIN prod.nutriments

\* the record carries the defaults for what the raw product lacks
Defaulted(prod, food) ==
  /\ "code" \notin DOMAIN prod => food.id = Undefined
  /\ "product_name" \notin DOMAIN prod => food.name = "Unknown Product"
  /\ "nutriments" \notin DOMAIN prod => food.protein = 0 /\ food.servingSize = 100
  /\ ("nutriments" \in DOMAIN prod /\ "serving_size" \notin DOMAIN prod.nutriments) =>
        food.servingSize = 100

(* C23: a batch with a malformed raw record (no identity code, name,         *)
(* nutrient map or serving size) does not fail: searchFoods returns the      *)
(* record of every product of the batch that is the first of its key and     *)
(* has positive protein, and a malformed product is normalized with the      *)
(* defaults: placeholder name, serving size 100, protein 0.                  *)
MalformedRecordAbsorbed ==
  (Merged /\ \E i \in 1..Len(AllProducts) : Malformed(AllProducts[i])) =>
     /\ \A i \in Survivors :
           \E n \in 1..Len(apiResults) :
              /\ apiResults[n].id = CodeOf(AllProducts[i])
              /\ apiResults[n].protein > 0
              /\ Defaulted(AllProducts[i], apiResults[n])
     /\ \A i \in 1..Len(AllProducts) :
           Defaulted(AllProducts[i], transformProduct(AllProducts[i]))

\* a product with no nutrient map shares a batch with a well-formed one, which
\* is returned
MalformedRecordAbsorbedWitness ==
  /\ Merged
  /\ \E i, j \in 1..Len(AllProducts) :
        /\ "nutriments" \notin DOMAIN AllProducts[i]
        /\ ~Malformed(AllProducts[j])
        /\ j \in Survivors
  /\ Len(apiResults) > 0

---------------------------------------------------------------------------
(* Direct label-to-record table *)

(* C29: for every key k of FOOD_CLASS_MAPPINGS, mapToFoodItem resolves a     *)
(* label equal to k to the record of k.                                      *)
EveryKeyReachable ==
  rpc = "mapped" =>
    /\ Len(foodResults) = 1
    /\ \E k \in 1..Len(FOOD_CLASS_MAPPINGS) :
          /\ FOOD_CLASS_MAPPINGS[k].key = predictions[1].className
          /\ foodResults[1].name = FOOD_CLASS_MAPPINGS[k].name
          /\ foodResults[1].protein = FOOD_CLASS_MAPPINGS[k].protein

---------------------------------------------------------------------------
(* Meal of the entry *)

(* C28: when the dialog was opened from the add button of a meal and its     *)
(* meal selection is still the one it started with, handleAdd logs the food  *)
(* under the meal of that button.                                            *)
LoggedUnderOpenedMeal ==
  [][(/\ showSearch /\ ~showSearch'
      /\ selectedMealType # Null
      /\ selectedMeal = "breakfast") =>
        entry'[1].meal = selectedMealType]_vars


---------------------------------------------------------------------------
(* The camera tab of FoodSearch *)

\* the calls with a recognition under way: decoding the blob, awaiting the
\* model, or awaiting the classifier
RecognitionInFlight == {c \in Callers : cpc[c] \in {"decode", "recognize", "classify"}}

\* C25: whenever no recognition is in flight the hook's loading flag is false,
\* also after createImageFromBlob has rejected
LoadingOnlyInFlight == RecognitionInFlight = {} => loading = FALSE

\* C27: once the hook has been reset while a recognition is in flight (the
\* camera state is back to idle although the call has not returned), no step
\* publishes results or an error: they stay empty and null until a new
\* recognition is started
NothingPublishedAfterReset ==
  [][(RecognitionInFlight # {} /\ cameraState = "idle" /\ hookResults = <<>> /\ error = Null
        /\ ~(\E c \in Callers : cpc[c] \notin InFlight /\ cpc'[c] = "decode"))
       => (hookResults' = <<>> /\ error' = Null)]_vars


---------------------------------------------------------------------------
(* The result list of the search tab *)

\* the lists searchAllFoods can return for query q, and the list the effect
\* shows for a blank query
ListsFor(q) ==
  IF trim(q) = "" THEN {InitialFoods}
  ELSE {combined(searchCommonFoods(q), api) : api \in RemoteAnswers}

\* nothing of the search tab is pending: no timeout, no search under way
Settled == showSearch /\ timer = Null /\ requests = <<>>

\* C26: once every search has returned, the result list is that of the most
\* recent query: a response to an earlier query never stays in place of it
ResultsOfLatestQuery == Settled => searchResults \in ListsFor(searchQuery)


---------------------------------------------------------------------------
(* Totals of the ledger *)

\* the sum of the protein values of all items in all meals of the log lg
SumOfItems(lg) ==
  LET slots == {<<m, i>> \in (DOMAIN lg.meals) \X (1..MaxItems) : i <= Len(lg.meals[m])}
      RECURSIVE Sum(_)
      Sum(ss) == IF ss = {} THEN 0
                 ELSE LET sl == CHOOSE x \in ss : TRUE
                      IN (IF "protein" \in DOMAIN lg.meals[sl[1]][sl[2]]
                          THEN lg.meals[sl[1]][sl[2]].protein ELSE 0) + Sum(ss \ {sl})
  IN Sum(slots)

\* every stored daily log carries the sum of its items as its total
TotalsMatch == \A d \in DOMAIN storedLogs : storedLogs[d].totalProtein = SumOfItems(storedLogs[d])

\* a step of addFood or removeFood whose save of the log fails
SaveFails ==
  \/ \E mealType \in LedgerMeals, foodItem \in LedgerFoods, recentSaved \in BOOLEAN :
        addFood(mealType, foodItem, FALSE, recentSaved)
  \/ \E mealType \in LedgerMeals, i \in 1..MaxItems : removeFood(mealType, i, FALSE)

\* C24: after any additions and removals on any days and meals every stored
\* daily log has totalProtein equal to the sum of the protein of its items;
\* when the save fails the stored logs are unchanged, the service returns null,
\* and the hook returns false with its log state and the recent foods unchanged
LedgerTotalsAndFailedSaves ==
  /\ []TotalsMatch
  /\ [][SaveFails => /\ storedLogs' = storedLogs
                      /\ returned'[1].service = <<>>
                      /\ returned'[1].hook = FALSE
                      /\ log' = log
                      /\ storedRecent' = storedRecent]_vars

\* two days are stored, one with items in a meal created on the way and a
\* total of both foods, and the last save failed
LedgerTotalsAndFailedSavesWitness ==
  /\ DOMAIN storedLogs = Dates
  /\ \E d \in Dates : /\ "brunch" \in DOMAIN storedLogs[d].meals
                       /\ Len(storedLogs[d].meals["brunch"]) > 0
                       /\ storedLogs[d].totalProtein = 2600
  /\ returned # <<>>
  /\ returned[1].hook = FALSE


---------------------------------------------------------------------------
(* The recent foods *)

\* the names of the list recent
NamesOf(recent) == {recent[i].name : i \in 1..Len(recent)}

\* at most 20 entries, no two of them with the same name
RecentWellFormed ==
  /\ Len(storedRecent) <= RecentLimit
  /\ \A i, j \in 1..Len(storedRecent) :
        storedRecent[i].name = storedRecent[j].name => i = j

\* C30: after addRecentFood calls whose writes succeed the stored list has at
\* most 20 entries, no name twice, and the food added last at the front;
\* re-adding a food of the list moves it to the front and changes neither the
\* length nor the relative order of the others
RecentFoodsKept ==
  /\ []RecentWellFormed
  /\ [][\A food \in RecentInputs :
          saveRecentFood(food, TRUE) =>
            /\ Head(storedRecent') = food
            /\ food.name \in NamesOf(storedRecent) =>
                 /\ Len(storedRecent') = Len(storedRecent)
                 /\ LET Other(f) == f.name # food.name
                    IN Tail(storedRecent') = SelectSeq(storedRecent, Other)]_vars

\* a full list took a new food, dropping its oldest, and then a food from its
\* middle again
RecentFoodsKeptWitness ==
  /\ Len(storedRecent) = RecentLimit
  /\ storedRecent[1].name = "Food 10"
  /\ storedRecent[2] = RecentFood(RecentLimit + 1)
  /\ RecentFood(1).name \notin NamesOf(storedRecent)

====
